---- MODULE Spec2Model ----
(***************************************************************************)
(* LyftDataset (lyft_dataset_sdk/lyftdataset.py): the table store, the     *)
(* token index, the de-normalisation pass of __make_reverse_index__ and    *)
(* the token queries get / getind.                                         *)
(*                                                                         *)
(* A table is a sequence of records (Python list of dict); a record is a   *)
(* TLA+ record whose DOMAIN is the set of keys the dict carries, so a      *)
(* derived field that has not been attached yet is a key that is absent.   *)
(* Python positions are 0-based: position ind is element ind + 1 here.     *)
(***************************************************************************)
EXTENDS Integers, Sequences, FiniteSets, TLC

VARIABLES
    files,              \* <json_path>/<name>.json: whether it is a file, and its records
    missing_tables_ok,  \* the constructor's flag
    tables,             \* self.<table_name>, for the names assigned so far
    token2ind,          \* self._token2ind
    explorer,           \* self.explorer exists
    pc,                 \* position of __init__ / __make_reverse_index__
    error,              \* the exception that ended __init__, or "none"
    result              \* what the last query returned or raised

vars == <<files, missing_tables_ok, tables, token2ind, explorer, pc, error, result>>

\* ---------------------------------------------------------------- bounds

\* Longest table of the varied input families (records per file).
MaxRecs == 2
\* Most table files that are missing from json_path at once.
MaxAbsent == 1

\* ----------------------------------------------------------- table names

table_names ==
    << "category", "attribute", "visibility", "instance", "sensor",
       "calibrated_sensor", "ego_pose", "log", "scene", "sample",
       "sample_data", "sample_annotation", "map" >>

TableSet == { table_names[i] : i \in 1..Len(table_names) }

\* A file that does not exist (os.path.isfile is false), and one that holds
\* the JSON list recs.
Absent == [isfile |-> FALSE, records |-> <<>>]

File(recs) == [isfile |-> TRUE, records |-> recs]

\* f[n] as a file, for every table name.
OnDisk(f) == [ n \in DOMAIN f |-> File(f[n]) ]

\* Python's empty dict / dict literal.
EmptyDict == [k \in {} |-> k]

\* key -> value added to dict d (d[key] = value).
SetItem(d, key, value) == (key :> value) @@ d

\* ------------------------------------------------- outcomes of a call

Ok(v) == [err |-> "none", val |-> v]
Raise(e) == [err |-> e, val |-> <<>>]

\* ------------------------------------------------------------ input data

\* The records of a well-formed dataset: every reference resolves except
\* instance i3, whose category_token names no category.
BaseFiles ==
    [ category |-> << [token |-> "c1", name |-> "car"],
                      [token |-> "c2", name |-> "pedestrian"] >>,
      attribute |-> << [token |-> "at1", name |-> "moving"] >>,
      visibility |-> << [token |-> "v1", level |-> "v0-40"] >>,
      instance |-> << [token |-> "i1", category_token |-> "c1"],
                      [token |-> "i2", category_token |-> "c2"],
                      [token |-> "i3", category_token |-> "cx"] >>,
      sensor |-> << [token |-> "se1", channel |-> "CAM_FRONT", modality |-> "camera"],
                    [token |-> "se2", channel |-> "LIDAR_TOP", modality |-> "lidar"] >>,
      calibrated_sensor |-> << [token |-> "cs1", sensor_token |-> "se1"],
                               [token |-> "cs2", sensor_token |-> "se2"] >>,
      ego_pose |-> << [token |-> "e1", timestamp |-> 0] >>,
      log |-> << [token |-> "l1"], [token |-> "l2"] >>,
      scene |-> << [token |-> "sc1", log_token |-> "l1",
                    first_sample_token |-> "s1", last_sample_token |-> "s2"] >>,
      sample |-> << [token |-> "s1", scene_token |-> "sc1", prev |-> "", next |-> "s2",
                     timestamp |-> 0],
                    [token |-> "s2", scene_token |-> "sc1", prev |-> "s1", next |-> "",
                     timestamp |-> 10] >>,
      sample_data |-> << [token |-> "d1", sample_token |-> "s1", ego_pose_token |-> "e1",
                          calibrated_sensor_token |-> "cs1", is_key_frame |-> TRUE],
                         [token |-> "d2", sample_token |-> "s2", ego_pose_token |-> "e1",
                          calibrated_sensor_token |-> "cs2", is_key_frame |-> FALSE] >>,
      sample_annotation |-> << [token |-> "a1", sample_token |-> "s1", instance_token |-> "i1",
                                visibility_token |-> "v1", attribute_tokens |-> <<"at1">>],
                               [token |-> "a2", sample_token |-> "s2", instance_token |-> "i2",
                                visibility_token |-> "v1", attribute_tokens |-> <<"at1">>] >>,
      map |-> << [token |-> "m1", filename |-> "map.png", log_tokens |-> <<"l1", "l2">>] >> ]

\* The reference fields of the data model: <<table, field, table referred to>>.
\* attribute_tokens and log_tokens hold a list of tokens, the others one token;
\* map_token is the derived field of a log, which no file carries.
References ==
    { <<"instance", "category_token", "category">>,
      <<"log", "map_token", "map">>,
      <<"calibrated_sensor", "sensor_token", "sensor">>,
      <<"scene", "log_token", "log">>,
      <<"scene", "first_sample_token", "sample">>,
      <<"scene", "last_sample_token", "sample">>,
      <<"sample", "scene_token", "scene">>,
      <<"sample_data", "sample_token", "sample">>,
      <<"sample_data", "ego_pose_token", "ego_pose">>,
      <<"sample_data", "calibrated_sensor_token", "calibrated_sensor">>,
      <<"sample_annotation", "sample_token", "sample">>,
      <<"sample_annotation", "instance_token", "instance">>,
      <<"sample_annotation", "visibility_token", "visibility">>,
      <<"sample_annotation", "attribute_tokens", "attribute">>,
      <<"map", "log_tokens", "log">> }

\* The tables whose records refer, directly or through other records, to
\* a record of one of the tables in gone.
RECURSIVE Dependents(_)
Dependents(gone) ==
    LET more == { r[1] : r \in { x \in References : x[3] \in gone } } IN
    IF more \subseteq gone THEN gone ELSE Dependents(gone \cup more)

\* The dataset f cut down to what stays consistent when the tables in gone
\* have no record: a map keeps its record and lists no log, every other
\* table that depends on gone is emptied.
Prune(f, gone) ==
    [ n \in DOMAIN f |->
        IF n \notin Dependents(gone) \ gone
        THEN f[n]
        ELSE IF n = "map"
             THEN [ i \in 1..Len(f[n]) |-> [f[n][i] EXCEPT !.log_tokens = <<>>] ]
             ELSE <<>> ]

\* Tokens by position for the tables whose records are enumerated.
TokenNames ==
    [ sample_annotation |-> <<"a1", "a2", "a3", "a4">>,
      sample_data |-> <<"d1", "d2", "d3", "d4">>,
      map |-> <<"m1", "m2", "m3", "m4">> ]

\* All sequences over S of length 0..n.
SeqUpTo(S, n) == UNION { [1..k -> S] : k \in 0..n }

\* rows with the table's tokens attached by position (tokens unique).
WithTokens(name, rows) ==
    [ i \in 1..Len(rows) |-> [token |-> TokenNames[name][i]] @@ rows[i] ]

AnnRows ==
    [ sample_token : {"s1", "s2"}, instance_token : {"i1", "i2", "i3", "ix"},
      visibility_token : {"v1"}, attribute_tokens : {<<"at1">>} ]

DataRows ==
    [ sample_token : {"s1", "s2"}, calibrated_sensor_token : {"cs1", "cs2", "csx"},
      ego_pose_token : {"e1"}, is_key_frame : BOOLEAN ]

\* A map record with its log_tokens, or the legacy shape without the key.
MapRows ==
    { [filename |-> "map.png"] }
    \cup [ filename : {"map.png"}, log_tokens : {<<>>, <<"l1">>, <<"l2">>, <<"l1", "l2">>} ]

\* attribute is the table whose tokens may repeat in the input.
AttributeRows == [ token : {"at1", "at2"}, name : {"moving", "parked"} ]

AnnFamily ==
    { [BaseFiles EXCEPT !.sample_annotation = WithTokens("sample_annotation", rows)] :
        rows \in SeqUpTo(AnnRows, MaxRecs) }

DataFamily ==
    { [BaseFiles EXCEPT !.sample_data = WithTokens("sample_data", rows)] :
        rows \in SeqUpTo(DataRows, MaxRecs) }

MapFamily ==
    { [BaseFiles EXCEPT !.map = WithTokens("map", rows), !.log = logs] :
        rows \in SeqUpTo(MapRows, MaxRecs),
        logs \in { BaseFiles.log, SubSeq(BaseFiles.log, 1, 1) } }

AttributeFamily ==
    { [BaseFiles EXCEPT !.attribute = rows] : rows \in SeqUpTo(AttributeRows, MaxRecs) }

\* f with the files of the tables in gone removed from disk.
Remove(f, gone) == [ n \in TableSet |-> IF n \in gone THEN Absent ELSE File(f[n]) ]

\* Up to MaxAbsent files are missing: from the full dataset, which then has
\* dangling references, and from the dataset pruned to stay consistent.
AbsentFamily ==
    UNION { { Remove(BaseFiles, gone), Remove(Prune(BaseFiles, gone), gone) } :
              gone \in { g \in SUBSET TableSet : Cardinality(g) <= MaxAbsent } }

InputFiles ==
    { OnDisk(f) : f \in AnnFamily \cup DataFamily \cup MapFamily \cup AttributeFamily }
    \cup AbsentFamily

\* ------------------------------------------------------------ __init__

Init ==
    /\ files \in InputFiles
    /\ missing_tables_ok \in BOOLEAN
    /\ tables = EmptyDict
    /\ token2ind = EmptyDict
    /\ explorer = FALSE
    /\ pc = "load"
    /\ error = "none"
    /\ result = [op |-> "none"]

\* __load_table__ without the "and missing_ok" of its test: a missing file
\* is replaced by an empty table whatever the flag.
LoadTableIgnoringFlag(table_name, missing_ok) ==
    IF ~files[table_name].isfile
    THEN Ok(<<>>)
    ELSE Ok(files[table_name].records)

\* __load_table__(table_name, missing_ok): the file's records, or an empty
\* table for a missing file when missing_ok; open() of a missing file raises.
__load_table__(table_name, missing_ok) ==
    IF ~files[table_name].isfile /\ missing_ok
    THEN Ok(<<>>)
    ELSE IF ~files[table_name].isfile
         THEN Raise("FileNotFoundError")
         ELSE Ok(files[table_name].records)

\* The steps of __init__ in program order; __make_reverse_index__ is
\* inlined as the steps "token2ind" .. "log_to_map".
init_steps ==
    << "load", "map_mask", "token2ind", "category_name", "sensor", "init_sample",
       "key_frame", "anns", "log_to_map", "explorer", "ready" >>

\* The order with the explorer created right after the token index, before
\* the de-normalisation steps, which then run last.
StepAfterExplorerFirst(p) ==
    LET moved == << "load", "map_mask", "token2ind", "explorer", "category_name",
                    "sensor", "init_sample", "key_frame", "anns", "log_to_map", "ready" >>
        i == CHOOSE j \in 1..Len(moved) : moved[j] = p
    IN  moved[i + 1]

\* The step that follows step p.
StepAfter(p) ==
    LET i == CHOOSE j \in 1..Len(init_steps) : init_steps[j] = p IN init_steps[i + 1]

\* The table the next __load_table__ call of __init__ assigns.
NextTable == table_names[Cardinality(DOMAIN tables) + 1]

\* An exception leaves __init__: no object is returned.
Fail(e) ==
    /\ pc' = "failed"
    /\ error' = e

\* A step that computed r (the tables as the step left them, and the
\* exception it raised if any) ends: the mutations made so far stay.
Finish(r) ==
    /\ tables' = r.val
    /\ IF r.err # "none"
       THEN Fail(r.err)
       ELSE pc' = StepAfter(pc) /\ UNCHANGED error

\* self.<name> = self.__load_table__("<name>", verbose, missing_tables_ok)
LoadTable ==
    /\ pc = "load"
    /\ LET r == __load_table__(NextTable, missing_tables_ok) IN
         IF r.err # "none"
         THEN /\ Fail(r.err)
              /\ UNCHANGED tables
         ELSE /\ tables' = SetItem(tables, NextTable, r.val)
              /\ pc' = IF Cardinality(DOMAIN tables) + 1 = Len(table_names)
                       THEN StepAfter(pc) ELSE pc
              /\ UNCHANGED error
    /\ UNCHANGED <<files, missing_tables_ok, token2ind, explorer, result>>

\* for map_record in self.map: map_record["mask"] = MapMask(...)
MapMask ==
    /\ pc = "map_mask"
    /\ Finish(Ok([tables EXCEPT !.map =
                    [i \in 1..Len(@) |-> SetItem(@[i], "mask", "MapMask")]]))
    /\ UNCHANGED <<files, missing_tables_ok, token2ind, explorer, result>>

\* ------------------------------------------------------ the token index

\* The index with positions counted from 1, as enumerate(table, 1) would.
RECURSIVE IndexTableFromOne(_, _, _)
IndexTableFromOne(table, i, index) ==
    IF i > Len(table)
    THEN index
    ELSE IndexTableFromOne(table, i + 1, SetItem(index, table[i].token, i))

\* for ind, member in enumerate(table): index[member["token"]] = ind
RECURSIVE IndexTable(_, _, _)
IndexTable(table, i, index) ==
    IF i > Len(table)
    THEN index
    ELSE IndexTable(table, i + 1, SetItem(index, table[i].token, i - 1))

\* self._token2ind of the tables tabs.
MakeToken2Ind(tabs) ==
    [ table \in TableSet |-> IndexTable(tabs[table], 1, EmptyDict) ]

BuildToken2Ind ==
    /\ pc = "token2ind"
    /\ token2ind' = MakeToken2Ind(tables)
    /\ pc' = StepAfter(pc)
    /\ UNCHANGED <<files, missing_tables_ok, tables, explorer, error, result>>

\* getind with a default position for a token the index lacks, as
\* self._token2ind[table_name].get(token, 0) would.
getindDefault(table_name, token) ==
    IF table_name \in DOMAIN token2ind /\ token \in DOMAIN token2ind[table_name]
    THEN Ok(token2ind[table_name][token])
    ELSE Ok(0)

\* getind(table_name, token): self._token2ind[table_name][token]
getind(table_name, token) ==
    IF table_name \in DOMAIN token2ind /\ token \in DOMAIN token2ind[table_name]
    THEN Ok(token2ind[table_name][token])
    ELSE Raise("KeyError")

\* get(table_name, token) on the tables tabs: the record at getind's position.
get(tabs, table_name, token) ==
    IF table_name \notin TableSet
    THEN Raise("AssertionError")
    ELSE LET ind == getind(table_name, token) IN
         IF ind.err # "none"
         THEN ind
         ELSE IF ind.val + 1 \in 1..Len(tabs[table_name])
              THEN Ok(tabs[table_name][ind.val + 1])
              ELSE Raise("IndexError")

\* record[key], a KeyError when the dict has no such key.
GetItem(record, key) ==
    IF key \in DOMAIN record THEN Ok(record[key]) ELSE Raise("KeyError")

\* A loop that stops at an exception keeps the tables as they are by then.
Stop(e, tabs) == [err |-> e, val |-> tabs]

\* ------------------------------------------------- de-normalisation

\* The loop with a default name where a reference does not resolve, as
\* a try/except around the two get calls would attach.
RECURSIVE DecorateCategoryNameOrDefault(_, _)
DecorateCategoryNameOrDefault(tabs, i) ==
    IF i > Len(tabs.sample_annotation)
    THEN Ok(tabs)
    ELSE LET record == tabs.sample_annotation[i]
             inst == get(tabs, "instance", record.instance_token)
             cat == IF inst.err # "none"
                    THEN inst
                    ELSE get(tabs, "category", inst.val.category_token)
             name == IF cat.err # "none" THEN "unknown" ELSE cat.val.name
         IN  DecorateCategoryNameOrDefault(
                 [tabs EXCEPT !.sample_annotation[i] =
                     SetItem(record, "category_name", name)],
                 i + 1)

\* for record in self.sample_annotation: record["category_name"] = ...
RECURSIVE DecorateCategoryName(_, _)
DecorateCategoryName(tabs, i) ==
    IF i > Len(tabs.sample_annotation)
    THEN Ok(tabs)
    ELSE LET record == tabs.sample_annotation[i]
             inst == get(tabs, "instance", record.instance_token)
         IN  IF inst.err # "none"
             THEN Stop(inst.err, tabs)
             ELSE LET cat == get(tabs, "category", inst.val.category_token) IN
                  IF cat.err # "none"
                  THEN Stop(cat.err, tabs)
                  ELSE DecorateCategoryName(
                           [tabs EXCEPT !.sample_annotation[i] =
                               SetItem(record, "category_name", cat.val.name)],
                           i + 1)

CategoryName ==
    /\ pc = "category_name"
    /\ Finish(DecorateCategoryName(tables, 1))
    /\ UNCHANGED <<files, missing_tables_ok, token2ind, explorer, result>>

\* for record in self.sample_data: sensor_modality and channel
RECURSIVE DecorateSensor(_, _)
DecorateSensor(tabs, i) ==
    IF i > Len(tabs.sample_data)
    THEN Ok(tabs)
    ELSE LET record == tabs.sample_data[i]
             cs_record == get(tabs, "calibrated_sensor", record.calibrated_sensor_token)
         IN  IF cs_record.err # "none"
             THEN Stop(cs_record.err, tabs)
             ELSE LET sensor_record == get(tabs, "sensor", cs_record.val.sensor_token) IN
                  IF sensor_record.err # "none"
                  THEN Stop(sensor_record.err, tabs)
                  ELSE DecorateSensor(
                           [tabs EXCEPT !.sample_data[i] =
                               SetItem(SetItem(record, "sensor_modality",
                                               sensor_record.val.modality),
                                       "channel", sensor_record.val.channel)],
                           i + 1)

SensorInfo ==
    /\ pc = "sensor"
    /\ Finish(DecorateSensor(tables, 1))
    /\ UNCHANGED <<files, missing_tables_ok, token2ind, explorer, result>>

\* The loop giving data and anns only to a sample that has none yet.
KeepSampleFields(tabs) ==
    [tabs EXCEPT !.sample =
        [i \in 1..Len(@) |->
            IF "anns" \in DOMAIN @[i] THEN @[i]
            ELSE SetItem(SetItem(@[i], "data", EmptyDict), "anns", <<>>)]]

\* for record in self.sample: record["data"] = {}; record["anns"] = []
InitSampleFields(tabs) ==
    [tabs EXCEPT !.sample =
        [i \in 1..Len(@) |-> SetItem(SetItem(@[i], "data", EmptyDict), "anns", <<>>)]]

InitSample ==
    /\ pc = "init_sample"
    /\ Finish(Ok(InitSampleFields(tables)))
    /\ UNCHANGED <<files, missing_tables_ok, token2ind, explorer, result>>

\* The loop without its is_key_frame test: every capture is indexed.
RECURSIVE IndexEveryCapture(_, _)
IndexEveryCapture(tabs, i) ==
    IF i > Len(tabs.sample_data)
    THEN Ok(tabs)
    ELSE LET record == tabs.sample_data[i]
             sample_record == get(tabs, "sample", record.sample_token)
         IN  IF sample_record.err # "none"
             THEN Stop(sample_record.err, tabs)
             ELSE IndexEveryCapture(
                      [tabs EXCEPT
                         !.sample[getind("sample", record.sample_token).val + 1].data =
                             SetItem(@, record.channel, record.token)],
                      i + 1)

\* The loop keeping the first key frame of a channel: a later one of the same
\* sample and channel is not stored.
RECURSIVE IndexFirstKeyFrames(_, _)
IndexFirstKeyFrames(tabs, i) ==
    IF i > Len(tabs.sample_data)
    THEN Ok(tabs)
    ELSE LET record == tabs.sample_data[i] IN
         IF ~record.is_key_frame
         THEN IndexFirstKeyFrames(tabs, i + 1)
         ELSE LET sample_record == get(tabs, "sample", record.sample_token)
                  channel == GetItem(record, "channel")
              IN  IF sample_record.err # "none"
                  THEN Stop(sample_record.err, tabs)
                  ELSE IF channel.err # "none" \/ "data" \notin DOMAIN sample_record.val
                  THEN Stop("KeyError", tabs)
                  ELSE IF channel.val \in DOMAIN sample_record.val.data
                  THEN IndexFirstKeyFrames(tabs, i + 1)
                  ELSE IndexFirstKeyFrames(
                           [tabs EXCEPT
                              !.sample[getind("sample", record.sample_token).val + 1].data =
                                  SetItem(@, channel.val, record.token)],
                           i + 1)

\* for record in self.sample_data: if record["is_key_frame"]:
\*     sample_record["data"][record["channel"]] = record["token"]
RECURSIVE IndexKeyFrames(_, _)
IndexKeyFrames(tabs, i) ==
    IF i > Len(tabs.sample_data)
    THEN Ok(tabs)
    ELSE LET record == tabs.sample_data[i] IN
         IF ~record.is_key_frame
         THEN IndexKeyFrames(tabs, i + 1)
         ELSE LET sample_record == get(tabs, "sample", record.sample_token)
                  channel == GetItem(record, "channel")
              IN  IF sample_record.err # "none"
                  THEN Stop(sample_record.err, tabs)
                  ELSE IF channel.err # "none" \/ "data" \notin DOMAIN sample_record.val
                  THEN Stop("KeyError", tabs)
                  ELSE IndexKeyFrames(
                           [tabs EXCEPT
                              !.sample[getind("sample", record.sample_token).val + 1].data =
                                  SetItem(@, channel.val, record.token)],
                           i + 1)

KeyFrameData ==
    /\ pc = "key_frame"
    /\ Finish(IndexKeyFrames(tables, 1))
    /\ UNCHANGED <<files, missing_tables_ok, token2ind, explorer, result>>

\* The loop with anns.insert(0, token) in place of anns.append(token).
RECURSIVE IndexAnnsReversed(_, _)
IndexAnnsReversed(tabs, i) ==
    IF i > Len(tabs.sample_annotation)
    THEN Ok(tabs)
    ELSE LET ann_record == tabs.sample_annotation[i]
             sample_record == get(tabs, "sample", ann_record.sample_token)
         IN  IF sample_record.err # "none"
             THEN Stop(sample_record.err, tabs)
             ELSE IndexAnnsReversed(
                      [tabs EXCEPT
                         !.sample[getind("sample", ann_record.sample_token).val + 1].anns =
                             <<ann_record.token>> \o @],
                      i + 1)

\* for ann_record in self.sample_annotation:
\*     sample_record["anns"].append(ann_record["token"])
RECURSIVE IndexAnns(_, _)
IndexAnns(tabs, i) ==
    IF i > Len(tabs.sample_annotation)
    THEN Ok(tabs)
    ELSE LET ann_record == tabs.sample_annotation[i]
             sample_record == get(tabs, "sample", ann_record.sample_token)
         IN  IF sample_record.err # "none"
             THEN Stop(sample_record.err, tabs)
             ELSE IF "anns" \notin DOMAIN sample_record.val
             THEN Stop("KeyError", tabs)
             ELSE IndexAnns(
                      [tabs EXCEPT
                         !.sample[getind("sample", ann_record.sample_token).val + 1].anns =
                             Append(@, ann_record.token)],
                      i + 1)

Anns ==
    /\ pc = "anns"
    /\ Finish(IndexAnns(tables, 1))
    /\ UNCHANGED <<files, missing_tables_ok, token2ind, explorer, result>>

\* for log_token in map_record["log_tokens"]: log_to_map[log_token] = token
RECURSIVE MapLogTokens(_, _, _, _)
MapLogTokens(log_tokens, j, map_token, log_to_map) ==
    IF j > Len(log_tokens)
    THEN log_to_map
    ELSE MapLogTokens(log_tokens, j + 1, map_token,
                      SetItem(log_to_map, log_tokens[j], map_token))

\* The loop with every log token mapped to the first map record's token,
\* self.map[0]["token"] in place of map_record["token"].
RECURSIVE BuildLogToFirstMap(_, _, _)
BuildLogToFirstMap(maps, i, log_to_map) ==
    IF i > Len(maps)
    THEN Ok(log_to_map)
    ELSE LET log_tokens == GetItem(maps[i], "log_tokens") IN
         IF log_tokens.err # "none"
         THEN Raise(log_tokens.err)
         ELSE BuildLogToFirstMap(maps, i + 1,
                  MapLogTokens(log_tokens.val, 1, maps[1].token, log_to_map))

\* for map_record in self.map: ...; a record without the key raises.
RECURSIVE BuildLogToMap(_, _, _)
BuildLogToMap(maps, i, log_to_map) ==
    IF i > Len(maps)
    THEN Ok(log_to_map)
    ELSE LET log_tokens == GetItem(maps[i], "log_tokens") IN
         IF log_tokens.err # "none"
         THEN Raise(log_tokens.err)
         ELSE BuildLogToMap(maps, i + 1,
                            MapLogTokens(log_tokens.val, 1, maps[i].token, log_to_map))

\* for log_record in self.log: log_record["map_token"] = log_to_map[token]
RECURSIVE AttachMapToken(_, _, _)
AttachMapToken(tabs, i, log_to_map) ==
    IF i > Len(tabs.log)
    THEN Ok(tabs)
    ELSE LET map_token == GetItem(log_to_map, tabs.log[i].token) IN
         IF map_token.err # "none"
         THEN Stop(map_token.err, tabs)
         ELSE AttachMapToken(
                  [tabs EXCEPT !.log[i] = SetItem(@, "map_token", map_token.val)],
                  i + 1, log_to_map)

\* self.map[0] of a table that has no record: the {} a missing file was
\* replaced with raises KeyError, the [] of an empty file IndexError.
FirstMapError == IF files.map.isfile THEN "IndexError" ELSE "KeyError"

\* The message of the Exception lines 165-166 raise.
CompatibilityError == "Error: log_tokens not in map table"

\* The check of the first map record that precedes the log-to-map loops.
MapCompatibility(maps) ==
    IF Len(maps) = 0
    THEN FirstMapError
    ELSE IF "log_tokens" \notin DOMAIN maps[1]
         THEN CompatibilityError
         ELSE "none"

\* "Add reverse indices from log records to map records."
ReverseLogToMap(tabs) ==
    LET compat == MapCompatibility(tabs.map) IN
    IF compat # "none"
    THEN Stop(compat, tabs)
    ELSE LET log_to_map == BuildLogToMap(tabs.map, 1, EmptyDict) IN
         IF log_to_map.err # "none"
         THEN Stop(log_to_map.err, tabs)
         ELSE AttachMapToken(tabs, 1, log_to_map.val)

LogToMap ==
    /\ pc = "log_to_map"
    /\ Finish(ReverseLogToMap(tables))
    /\ UNCHANGED <<files, missing_tables_ok, token2ind, explorer, result>>

\* self.explorer = LyftDatasetExplorer(self); __init__ returns the object.
CreateExplorer ==
    /\ pc = "explorer"
    /\ explorer' = TRUE
    /\ pc' = StepAfter(pc)
    /\ UNCHANGED <<files, missing_tables_ok, tables, token2ind, error, result>>

\* --------------------------------------------------------------- queries

\* The tokens a table's records carry.
Tokens(table) == { table[i].token : i \in 1..Len(table) }

\* Table names a caller may pass: the 13 tables and one that is none.
QueryTables == TableSet \cup {"lidarseg"}

\* Tokens a caller may pass for table_name: its own tokens, the token of a
\* record of another table, and a token nothing carries.
QueryTokens(table_name) ==
    (IF table_name \in DOMAIN tables THEN Tokens(tables[table_name]) ELSE {})
    \cup {"c1", "zz"}

\* A caller invokes get(table_name, token) on the constructed object.
Get ==
    /\ pc = "ready"
    /\ result.op = "none"
    /\ \E table_name \in QueryTables : \E token \in QueryTokens(table_name) :
         LET r == get(tables, table_name, token) IN
         result' = [op |-> "get", table_name |-> table_name, token |-> token,
                    err |-> r.err, val |-> r.val]
    /\ UNCHANGED <<files, missing_tables_ok, tables, token2ind, explorer, pc, error>>

\* A caller invokes getind(table_name, token) on the constructed object.
GetInd ==
    /\ pc = "ready"
    /\ result.op = "none"
    /\ \E table_name \in QueryTables : \E token \in QueryTokens(table_name) :
         LET r == getind(table_name, token) IN
         result' = [op |-> "getind", table_name |-> table_name, token |-> token,
                    err |-> r.err, val |-> r.val]
    /\ UNCHANGED <<files, missing_tables_ok, tables, token2ind, explorer, pc, error>>

\* The call is over: the caller has its value (or exception) and the object
\* waits for the next call.
Return ==
    /\ pc = "ready"
    /\ result.op # "none"
    /\ result' = [op |-> "none"]
    /\ UNCHANGED <<files, missing_tables_ok, tables, token2ind, explorer, pc, error>>

\* Loop k of __make_reverse_index__ after the token index, in program
\* order, on the tables tabs.
DecorationLoop(k, tabs) ==
    CASE k = 1 -> DecorateCategoryName(tabs, 1)
      [] k = 2 -> DecorateSensor(tabs, 1)
      [] k = 3 -> Ok(InitSampleFields(tabs))
      [] k = 4 -> IndexKeyFrames(tabs, 1)
      [] k = 5 -> IndexAnns(tabs, 1)
      [] k = 6 -> ReverseLogToMap(tabs)

\* The loops from loop k on, run on what the loops before left in r, unless
\* one of them raised.
RECURSIVE Decorate(_, _)
Decorate(r, k) ==
    IF r.err # "none" \/ k > 6 THEN r
    ELSE Decorate(DecorationLoop(k, r.val), k + 1)

\* A caller runs __make_reverse_index__ again on the constructed object.
MakeReverseIndexAgain ==
    /\ pc = "ready"
    /\ result.op = "none"
    /\ token2ind' = MakeToken2Ind(tables)
    /\ tables' = Decorate(Ok(tables), 1).val
    /\ result' = [op |-> "__make_reverse_index__", err |-> Decorate(Ok(tables), 1).err]
    /\ UNCHANGED <<files, missing_tables_ok, explorer, pc, error>>

Next ==
    \/ LoadTable
    \/ MapMask
    \/ BuildToken2Ind
    \/ CategoryName
    \/ SensorInfo
    \/ InitSample
    \/ KeyFrameData
    \/ Anns
    \/ LogToMap
    \/ CreateExplorer
    \/ Get
    \/ GetInd
    \/ MakeReverseIndexAgain
    \/ Return

Spec == Init /\ [][Next]_vars

\* ================================================================ claims

\* Record i is the only record of table that carries its token.
UniqueToken(table, i) ==
    \A j \in 1..Len(table) : table[j].token = table[i].token => j = i

\* C1: after construction, for every table T and every record r of T whose
\* token no other record of T carries, getind(T, r.token) is r's (0-based)
\* position in T and get(T, r.token) is r; a get or getind call that was made
\* with such a token returned exactly that.
C1_IndexRoundTrip ==
    pc = "ready" =>
        \A T \in TableSet : \A i \in 1..Len(tables[T]) :
            UniqueToken(tables[T], i) =>
                LET token == tables[T][i].token IN
                /\ getind(T, token).err = "none"
                /\ getind(T, token).val = i - 1
                /\ get(tables, T, token).err = "none"
                /\ get(tables, T, token).val = tables[T][i]
                /\ (result.op = "getind" /\ result.table_name = T /\ result.token = token)
                      => result.err = "none" /\ result.val = i - 1
                /\ (result.op = "get" /\ result.table_name = T /\ result.token = token)
                      => result.err = "none" /\ result.val = tables[T][i]

\* C1 witness: get returned the second record of a table whose tokens are
\* unique, a sample that carries its derived fields.
C1_Witness ==
    /\ pc = "ready"
    /\ result.op = "get"
    /\ result.table_name = "sample"
    /\ result.err = "none"
    /\ Len(tables.sample) = 2
    /\ result.val = tables.sample[2]
    /\ result.val.anns # <<>>
    /\ \E i \in 1..Len(tables.attribute) : ~UniqueToken(tables.attribute, i)

\* C2: a get or getind call on one of the 13 tables with a token that no
\* record of that table carries raises KeyError (a LookupError), returns no
\* record, and leaves the tables with their derived fields and the token
\* index as they were.
C2_UnknownTokenFails ==
    [][ ( /\ result.op = "none"
          /\ result'.op \in {"get", "getind"}
          /\ result'.table_name \in TableSet
          /\ result'.token \notin Tokens(tables[result'.table_name]) )
        => ( /\ result'.err = "KeyError"
             /\ result'.val = <<>>
             /\ tables' = tables
             /\ token2ind' = token2ind
             /\ pc' = pc ) ]_vars

\* C2 witness: get was called on a table that has records with the token of
\* a record of another table, and raised KeyError.
C2_Witness ==
    /\ result.op = "get"
    /\ result.table_name = "instance"
    /\ result.token = "c1"
    /\ Len(tables.instance) > 0
    /\ "c1" \in Tokens(tables.category)
    /\ result.err = "KeyError"

\* The values of dict d.
Values(d) == { d[k] : k \in DOMAIN d }

\* The positions of the key-frame captures of the sample with token s.
KeyFramesOf(s) ==
    { j \in 1..Len(tables.sample_data) :
        tables.sample_data[j].is_key_frame /\ tables.sample_data[j].sample_token = s }

\* C3: after construction, every value of a sample's data is the token of a
\* sample_data record that is a key frame of that sample and is stored under
\* that record's channel; the keys of data are the channels of the sample's
\* key frames; no capture with is_key_frame false is a value of any data.
C3_DataHoldsKeyFrames ==
    pc = "ready" =>
        /\ \A i \in 1..Len(tables.sample) :
              LET s == tables.sample[i] IN
              /\ \A channel \in DOMAIN s.data :
                    LET r == get(tables, "sample_data", s.data[channel]) IN
                    /\ r.err = "none"
                    /\ r.val.token = s.data[channel]
                    /\ r.val.is_key_frame
                    /\ r.val.sample_token = s.token
                    /\ r.val.channel = channel
              /\ DOMAIN s.data = { tables.sample_data[j].channel : j \in KeyFramesOf(s.token) }
        /\ \A j \in 1..Len(tables.sample_data) :
              ~tables.sample_data[j].is_key_frame =>
                  \A i \in 1..Len(tables.sample) :
                      tables.sample_data[j].token \notin Values(tables.sample[i].data)

\* C3 witness: a sample has a key frame in its data and also a capture that
\* is no key frame.
C3_Witness ==
    /\ pc = "ready"
    /\ \E i \in 1..Len(tables.sample) : \E j \in 1..Len(tables.sample_data) :
          /\ tables.sample[i].data # EmptyDict
          /\ ~tables.sample_data[j].is_key_frame
          /\ tables.sample_data[j].sample_token = tables.sample[i].token

\* The tokens of the records of the file of sample_annotation whose
\* sample_token is s, in file order.
RECURSIVE AnnTokensOf(_, _)
AnnTokensOf(s, i) ==
    LET anns == files.sample_annotation.records IN
    IF i > Len(anns)
    THEN <<>>
    ELSE (IF anns[i].sample_token = s THEN <<anns[i].token>> ELSE <<>>)
         \o AnnTokensOf(s, i + 1)

\* C4: after construction, the anns of every sample is the list of the tokens
\* of the sample_annotation records whose sample_token is the sample's token,
\* in table order, each once; an annotation token is in the anns of no sample
\* but its own.
C4_AnnsPerSample ==
    pc = "ready" =>
        /\ \A i \in 1..Len(tables.sample) :
              tables.sample[i].anns = AnnTokensOf(tables.sample[i].token, 1)
        /\ \A j \in 1..Len(tables.sample_annotation) : \A i \in 1..Len(tables.sample) :
              LET a == tables.sample_annotation[j]
                  anns == tables.sample[i].anns
              IN  Cardinality({ k \in 1..Len(anns) : anns[k] = a.token })
                    = IF a.sample_token = tables.sample[i].token THEN 1 ELSE 0

\* C4 witness: a sample ends with two annotations.
C4_Witness ==
    /\ pc = "ready"
    /\ \E i \in 1..Len(tables.sample) : Len(tables.sample[i].anns) >= 2

\* The records of table whose token is token.
WithToken(table, token) == { i \in 1..Len(table) : table[i].token = token }

\* The category names that annotation record a resolves to in the files:
\* instance_token -> instance -> category_token -> category -> name.
CategoryNames(a) ==
    LET inst == files.instance.records
        cat == files.category.records
    IN  { cat[k].name :
            k \in UNION { WithToken(cat, inst[j].category_token) :
                            j \in WithToken(inst, a.instance_token) } }

\* C5: an annotation that carries category_name carries the name its
\* instance's category has; after construction every annotation carries it;
\* when an annotation's instance or that instance's category does not
\* resolve, construction never gets past the category-name step, and once
\* all tables are loaded it fails there with KeyError instead.
C5_CategoryName ==
    /\ \A j \in 1..Len(IF "sample_annotation" \in DOMAIN tables
                         THEN tables.sample_annotation ELSE <<>>) :
          LET a == tables.sample_annotation[j] IN
          /\ "category_name" \in DOMAIN a => CategoryNames(a) = {a.category_name}
          /\ pc = "ready" => "category_name" \in DOMAIN a
    /\ (\E j \in 1..Len(files.sample_annotation.records) :
            CategoryNames(files.sample_annotation.records[j]) = {})
        => /\ pc \in {"load", "map_mask", "token2ind", "category_name", "failed"}
           /\ (pc = "failed" /\ DOMAIN tables = TableSet) => error = "KeyError"

\* C5 witness: construction completed with two annotations of different
\* categories.
C5_Witness ==
    /\ pc = "ready"
    /\ Len(tables.sample_annotation) = 2
    /\ tables.sample_annotation[1].category_name = "pedestrian"
    /\ tables.sample_annotation[2].category_name = "car"

\* Some record of the file of the map table has no log_tokens key.
LegacyMap ==
    \E i \in 1..Len(files.map.records) : "log_tokens" \notin DOMAIN files.map.records[i]

\* C6: when any record of the map table lacks log_tokens, construction does
\* not complete, no object with an explorer exists, and once all tables are
\* loaded it fails with the compatibility error "log_tokens not in map table".
C6_LegacyMapIsCompatibilityError ==
    LegacyMap =>
        /\ pc # "ready"
        /\ ~explorer
        /\ (pc = "failed" /\ DOMAIN tables = TableSet) => error = CompatibilityError

\* The elements of sequence q.
Range(q) == { q[i] : i \in 1..Len(q) }

\* C7: after construction every log record carries map_token, the token of
\* a map record whose log_tokens holds the log's token.
C7_LogMapToken ==
    pc = "ready" =>
        \A i \in 1..Len(tables.log) :
            /\ "map_token" \in DOMAIN tables.log[i]
            /\ \E k \in 1..Len(files.map.records) :
                  /\ files.map.records[k].token = tables.log[i].map_token
                  /\ tables.log[i].token \in Range(files.map.records[k].log_tokens)

\* C7 witness: two logs ended with the tokens of two different maps.
C7_Witness ==
    /\ pc = "ready"
    /\ Len(tables.log) = 2
    /\ tables.log[1].map_token # tables.log[2].map_token

\* C8: a __load_table__ call of __init__ for a missing file assigns the
\* empty table when missing_tables_ok and raises FileNotFoundError, assigning
\* nothing, when not; for a file that exists it assigns the file's records
\* in file order, whatever the flag.
C8_LoadTable ==
    [][ pc = "load" =>
          LET name == NextTable IN
          /\ (~files[name].isfile /\ missing_tables_ok)
                => name \in DOMAIN tables' /\ tables'[name] = <<>> /\ error' = "none"
          /\ (~files[name].isfile /\ ~missing_tables_ok)
                => pc' = "failed" /\ error' = "FileNotFoundError" /\ tables' = tables
          /\ files[name].isfile
                => name \in DOMAIN tables' /\ tables'[name] = files[name].records
                   /\ error' = "none" ]_vars

\* C8 witness: with the flag set, a missing file was loaded as the empty
\* table and the file after it with its records.
C8_Witness ==
    /\ missing_tables_ok
    /\ \E m, n \in DOMAIN tables :
          /\ ~files[m].isfile
          /\ tables[m] = <<>>
          /\ files[n].isfile
          /\ Len(tables[n]) >= 2
          /\ tables[n] = files[n].records

\* The tables whose file is missing.
AbsentTables == { n \in TableSet : ~files[n].isfile }

\* The tokens record r refers to through field f (one token or a list).
Referred(r, f) ==
    IF f \notin DOMAIN r THEN {}
    ELSE IF f \in {"attribute_tokens", "log_tokens"} THEN Range(r[f])
    ELSE IF r[f] = "" THEN {} ELSE {r[f]}

\* Some record that is left on disk refers to a record of table T.
Referenced(T) ==
    \E x \in References :
        /\ x[3] = T
        /\ \E i \in 1..Len(files[x[1]].records) : Referred(files[x[1]].records[i], x[2]) # {}

\* C9: with missing_tables_ok set, one table file missing (any of the 13)
\* and no record left that refers to that table, construction raises nothing
\* and ends with that table empty.
C9_MissingTableTolerated ==
    \A T \in TableSet :
        (missing_tables_ok /\ AbsentTables = {T} /\ ~Referenced(T))
        => /\ error = "none"
           /\ pc # "failed"
           /\ T \in DOMAIN tables => tables[T] = <<>>

\* Every record of table tables[T] carries the keys in keys.
AllCarry(T, keys) == \A i \in 1..Len(tables[T]) : keys \subseteq DOMAIN tables[T][i]

\* Steps 1..k of init_steps.
StepsBefore(k) == { init_steps[j] : j \in 1..(k - 1) }

\* The position of step p in the order of the claim: the 13 loads (with the
\* map masks), the token index, the six de-normalisation steps, the explorer.
ClaimedOrder ==
    << "load", "map_mask", "token2ind", "category_name", "sensor", "init_sample",
       "key_frame", "anns", "log_to_map", "explorer", "ready" >>

Position(p) == CHOOSE j \in 1..Len(ClaimedOrder) : ClaimedOrder[j] = p

\* C10: construction moves through its steps in the fixed order (loads in
\* table_names order, token index, category_name, modality/channel, init of
\* data/anns, key-frame data, anns, log-to-map, explorer): a step starts only
\* when the one before it is done; the explorer exists, and a query is
\* answered, only when the index covers all 13 tables and every derived field
\* is attached.
C10_ConstructionOrder ==
    /\ [][ /\ (pc' # pc /\ pc' # "failed") => Position(pc') = Position(pc) + 1
           /\ (pc = "load" /\ pc' # "failed")
                 => DOMAIN tables' = { table_names[j] : j \in 1..(Cardinality(DOMAIN tables) + 1) }
           /\ (pc = "load" /\ pc' # "load" /\ pc' # "failed") => DOMAIN tables' = TableSet
           /\ token2ind' # token2ind => pc = "token2ind"
           /\ explorer' # explorer => pc = "explorer"
           /\ pc \in {"ready", "failed"} => pc' = pc ]_vars
    /\ [](pc \notin {"load", "map_mask", "token2ind", "failed"}
            => DOMAIN token2ind = TableSet /\ token2ind = MakeToken2Ind(tables))
    /\ []((explorer \/ result.op # "none") =>
            /\ pc = "ready"
            /\ DOMAIN tables = TableSet
            /\ DOMAIN token2ind = TableSet
            /\ AllCarry("sample_annotation", {"category_name"})
            /\ AllCarry("sample_data", {"sensor_modality", "channel"})
            /\ AllCarry("sample", {"data", "anns"})
            /\ AllCarry("log", {"map_token"})
            /\ AllCarry("map", {"mask"}))

\* C10 witness: a query was answered by an object that holds records with
\* every kind of derived field.
C10_Witness ==
    /\ pc = "ready"
    /\ explorer
    /\ result.op = "get"
    /\ result.err = "none"
    /\ \A T \in {"sample_annotation", "sample_data", "sample", "log", "map"} :
          Len(tables[T]) > 0

\* ======================================================= query operations
\* The second half of the module models the queries a caller makes on the
\* constructed object (get_sample_data_path, get_box, get_boxes,
\* get_sample_data, box_velocity, field2token) and the scenes they read.

\* ---------------------------------------------------------------- numbers
\* Timestamps are integers of microseconds, coordinates and angles are
\* integers.  A quotient the code computes in floating point is kept exactly,
\* as a reduced fraction <<n, d>> with d >= 0; d = 0 are the three values a
\* numpy division by zero produces: <<1, 0>> inf, <<-1, 0>> -inf, <<0, 0>> nan.

Abs(n) == IF n < 0 THEN -n ELSE n

RECURSIVE GCD(_, _)
GCD(a, b) == IF b = 0 THEN a ELSE GCD(b, a % b)

Sign(n) == IF n > 0 THEN 1 ELSE IF n < 0 THEN -1 ELSE 0

\* n / d of two integers, as numpy divides floats.
Quot(n, d) ==
    IF d = 0 THEN <<Sign(n), 0>>
    ELSE LET g == GCD(Abs(n), Abs(d)) IN
         <<(Sign(d) * n) \div g, Abs(d) \div g>>

\* An integer as a fraction.
Num(n) == <<n, 1>>

NaN == <<0, 0>>

\* q * n for a fraction q and an integer n, and the sum a + q.
Times(q, n) == Quot(q[1] * n, q[2])
Plus(a, q) == Quot(a * q[2] + q[1], q[2])

\* Vectors of three integers.
Neg(v) == [i \in 1..3 |-> -v[i]]
\* w - v, the difference taken the wrong way round.
MinusReversed(v, w) == [i \in 1..3 |-> w[i] - v[i]]

Minus(v, w) == [i \in 1..3 |-> v[i] - w[i]]
NumVec(v) == [i \in 1..3 |-> Num(v[i])]

\* ----------------------------------------------------------------- scenes
\* A scene of three samples s1 <- s2 <- s3 in which two instances are
\* annotated.  Sample s1 is at one second; s2 may be earlier than, at the
\* same time as, or later than s1.

MicrosPerSecond == 1000000

HalfSecond == MicrosPerSecond \div 2

SampleToken == <<"s1", "s2", "s3">>

AnnToken == << <<"a11", "a12", "a13">>, <<"a21", "a22", "a23">> >>

InstanceToken == <<"i1", "i2">>

\* Where and how instance n stands at sample k: i1 drives along x and turns,
\* i2 walks along y.
AnnTranslation == << << <<0, 0, 0>>, <<2, 0, 0>>, <<6, 0, 0>> >>,
                     << <<5, 5, 0>>, <<5, 7, 0>>, <<5, 8, 0>> >> >>

\* A rotation is a yaw angle in degrees and a tilt (pitch and roll) that only
\* poses of the vehicle have.
Rotation(yaw, tilt) == [yaw |-> yaw, tilt |-> tilt]

AnnRotation == << <<Rotation(0, 0), Rotation(90, 0), Rotation(120, 0)>>,
                  <<Rotation(30, 0), Rotation(30, 0), Rotation(30, 0)>> >>

\* The samples of the set K in increasing order.
Ordered(K) == SelectSeq([k \in DOMAIN SampleToken |-> k], LAMBDA k : k \in K)

\* The annotations of instance n, one per sample of K, each linked to the
\* annotation of the same instance before and after it.
Track(n, K) ==
    LET ks == Ordered(K) IN
    [ j \in 1..Len(ks) |->
        [token |-> AnnToken[n][ks[j]],
         sample_token |-> SampleToken[ks[j]],
         instance_token |-> InstanceToken[n],
         visibility_token |-> "v1",
         attribute_tokens |-> <<"at1">>,
         translation |-> AnnTranslation[n][ks[j]],
         size |-> <<2, 4, 1>>,
         rotation |-> AnnRotation[n][ks[j]],
         prev |-> IF j = 1 THEN "" ELSE AnnToken[n][ks[j - 1]],
         next |-> IF j = Len(ks) THEN "" ELSE AnnToken[n][ks[j + 1]]] ]

\* A capture of a sample by one of the calibrated sensors.
Capture(token, sample, cs, key, timestamp) ==
    [token |-> token, sample_token |-> sample, ego_pose_token |-> "e1",
     calibrated_sensor_token |-> cs, is_key_frame |-> key,
     timestamp |-> timestamp, filename |-> token \o ".bin",
     width |-> 1224, height |-> 1024, prev |-> "", next |-> ""]

\* The files of a scene whose samples s2, s3 are at ts2, ts3 and whose
\* instances i1, i2 are annotated in the samples K1, K2.
Scene(ts2, ts3, K1, K2) ==
    [ BaseFiles EXCEPT
      !.instance = << [token |-> "i1", category_token |-> "c1"],
                      [token |-> "i2", category_token |-> "c2"] >>,
      !.sensor = << [token |-> "se1", channel |-> "CAM_FRONT", modality |-> "camera"],
                    [token |-> "se2", channel |-> "LIDAR_TOP", modality |-> "lidar"],
                    [token |-> "se3", channel |-> "RADAR_FRONT", modality |-> "radar"] >>,
      !.calibrated_sensor =
          << [token |-> "cs1", sensor_token |-> "se1", translation |-> <<1, 0, 2>>,
              rotation |-> Rotation(-90, 90), camera_intrinsic |-> "K1"],
             [token |-> "cs2", sensor_token |-> "se2", translation |-> <<0, 0, 2>>,
              rotation |-> Rotation(0, 0)],
             [token |-> "cs3", sensor_token |-> "se3", translation |-> <<3, 0, 1>>,
              rotation |-> Rotation(0, 0)] >>,
      !.ego_pose = << [token |-> "e1", timestamp |-> MicrosPerSecond,
                       translation |-> <<10, 20, 0>>, rotation |-> Rotation(90, 5)] >>,
      !.scene = << [token |-> "sc1", log_token |-> "l1",
                    first_sample_token |-> "s1", last_sample_token |-> "s3"] >>,
      !.sample = << [token |-> "s1", scene_token |-> "sc1", prev |-> "", next |-> "s2",
                     timestamp |-> MicrosPerSecond],
                    [token |-> "s2", scene_token |-> "sc1", prev |-> "s1", next |-> "s3",
                     timestamp |-> ts2],
                    [token |-> "s3", scene_token |-> "sc1", prev |-> "s2", next |-> "",
                     timestamp |-> ts3] >>,
      !.sample_data =
          << Capture("d1", "s1", "cs1", TRUE, MicrosPerSecond),
             Capture("d2", "s2", "cs2", TRUE, 3 * HalfSecond),
             Capture("d3", "s2", "cs1", FALSE, HalfSecond),
             Capture("d4", "s2", "cs2", FALSE, 3 * HalfSecond),
             Capture("d5", "s2", "cs1", FALSE, 5 * HalfSecond),
             Capture("d6", "s1", "cs2", FALSE, 3 * HalfSecond),
             Capture("d7", "s3", "cs3", FALSE, 5 * HalfSecond) >>,
      !.sample_annotation = Track(1, K1) \o Track(2, K2) ]

\* Scenes for interpolation: s2 half a second before s1, together with it,
\* or a second after it; i1 annotated in s2 and perhaps in s1, i2 in s1, in
\* s2 or in both.
InterpolationScenes ==
    { Scene(ts2, 6 * HalfSecond, K1, K2) :
        ts2 \in {HalfSecond, 2 * HalfSecond, 4 * HalfSecond},
        K1 \in {{2}, {1, 2}},
        K2 \in {{1}, {2}, {1, 2}} }

\* Scenes for velocities: s3 two or three seconds after s1, i1 annotated in
\* any of the samples and linked through them.
VelocityScenes ==
    { Scene(ts2, ts3, K1, {2}) :
        ts2 \in {HalfSecond, 2 * HalfSecond, 4 * HalfSecond},
        ts3 \in {6 * HalfSecond, 8 * HalfSecond},
        K1 \in (SUBSET DOMAIN SampleToken) \ {{}} }

SceneFamily == InterpolationScenes \cup VelocityScenes

\* The object is constructed from the files of a scene.
InitScene ==
    /\ files \in { OnDisk(f) : f \in SceneFamily }
    /\ missing_tables_ok = FALSE
    /\ tables = EmptyDict
    /\ token2ind = EmptyDict
    /\ explorer = FALSE
    /\ pc = "load"
    /\ error = "none"
    /\ result = [op |-> "none"]

\* ------------------------------------------------------- query operators
\* Every query operator gives [err, val, reads]: the exception raised or
\* "none", the value returned, and the records it asked get() for.

Returns(v, reads) == [err |-> "none", val |-> v, reads |-> reads]

Raises(e, reads) == [err |-> e, val |-> <<>>, reads |-> reads]

\* self.data_path, the root the file names are relative to.
data_path == "data"

\* get_sample_data_path: the path of the file of a capture.
get_sample_data_path(tabs, sample_data_token) ==
    LET sd_record == get(tabs, "sample_data", sample_data_token)
        reads == {<<"sample_data", sample_data_token>>} IN
    IF sd_record.err # "none" THEN Raises(sd_record.err, reads)
    ELSE Returns(data_path \o "/" \o sd_record.val.filename, reads)

\* Quaternion(rotation): a rotation object made from a stored rotation; its
\* components are fractions because interpolation may produce any.
Quaternion(rotation) == [yaw |-> Num(rotation.yaw), tilt |-> Num(rotation.tilt)]

\* Quaternion.inverse
Inverse(q) == [yaw |-> <<-q.yaw[1], q.yaw[2]>>, tilt |-> <<-q.tilt[1], q.tilt[2]>>]

\* Quaternion(scalar=cos(yaw/2), vector=[0, 0, sin(yaw/2)]): the rotation
\* about the up axis by the yaw of q, pitch and roll dropped.
YawOnly(q) == [yaw |-> q.yaw, tilt |-> Num(0)]

\* Box(center, size, orientation, name, token): a new box holding its own
\* copies of the centre and the size.  moves lists the translate and rotate
\* steps applied to the box since, in order.
Box(center, size, orientation, name, token) ==
    [center |-> center, size |-> size, orientation |-> orientation,
     name |-> name, token |-> token, moves |-> <<>>]

\* Box.translate(x) and Box.rotate(quaternion)
translate(box, x) ==
    [box EXCEPT !.moves = Append(@, [op |-> "translate", x |-> x, q |-> Quaternion(Rotation(0, 0))])]

rotate(box, quaternion) ==
    [box EXCEPT !.moves = Append(@, [op |-> "rotate", x |-> <<0, 0, 0>>, q |-> quaternion])]

\* The box of a stored annotation record.
BoxOf(record) ==
    Box(NumVec(record.translation), record.size, Quaternion(record.rotation),
        record.category_name, record.token)

\* get_box: the box of the annotation with the given token.
get_box(tabs, sample_annotation_token) ==
    LET record == get(tabs, "sample_annotation", sample_annotation_token)
        reads == {<<"sample_annotation", sample_annotation_token>>} IN
    IF record.err # "none" THEN Raises(record.err, reads)
    ELSE Returns(BoxOf(record.val), reads)

\* list(map(self.get_box, tokens)): the first failing token ends the call.
RECURSIVE MapGetBox(_, _)
MapGetBox(tabs, tokens) ==
    IF tokens = <<>> THEN Returns(<<>>, {})
    ELSE LET box == get_box(tabs, Head(tokens)) IN
         IF box.err # "none" THEN box
         ELSE LET rest == MapGetBox(tabs, Tail(tokens)) IN
              IF rest.err # "none" THEN Raises(rest.err, box.reads \cup rest.reads)
              ELSE Returns(<<box.val>> \o rest.val, box.reads \cup rest.reads)

\* [self.get("sample_annotation", token) for token in tokens]; the tokens
\* come from the anns list, which holds tokens of the table only.
AnnRecs(tabs, tokens) ==
    [i \in 1..Len(tokens) |-> get(tabs, "sample_annotation", tokens[i]).val]

AnnReads(tokens) == { <<"sample_annotation", tokens[i]>> : i \in 1..Len(tokens) }

\* A map that has an entry for every instance: the last annotation of the
\* previous sample, whichever instance it is of.
PrevInstMapAnyInstance(prev_ann_recs) ==
    [ inst \in (IF prev_ann_recs = <<>> THEN {}
                ELSE { InstanceToken[n] : n \in DOMAIN InstanceToken }) |->
        prev_ann_recs[Len(prev_ann_recs)] ]

\* {entry["instance_token"]: entry for entry in prev_ann_recs}: a later
\* entry of the same instance replaces an earlier one.
PrevInstMap(prev_ann_recs) ==
    [ inst \in { prev_ann_recs[i].instance_token : i \in 1..Len(prev_ann_recs) } |->
        LET last == CHOOSE i \in 1..Len(prev_ann_recs) :
                      /\ prev_ann_recs[i].instance_token = inst
                      /\ \A j \in (i + 1)..Len(prev_ann_recs) :
                            prev_ann_recs[j].instance_token # inst
        IN prev_ann_recs[last] ]

\* max(t0, min(t1, t))
MaxOf(a, b) == IF a >= b THEN a ELSE b
MinOf(a, b) == IF a <= b THEN a ELSE b
\* min(t0, max(t1, t)): the bounds taken the wrong way round.
ClampTimeSwapped(t0, t1, t) == MinOf(t0, MaxOf(t1, t))

ClampTime(t0, t1, t) == MaxOf(t0, MinOf(t1, t))

\* np.interp(x, [x0, x1], [f0, f1]) as numpy evaluates it for two points:
\* right of x1 it gives f1, left of x0 it gives f0, at x1 it gives f1, at
\* x0 it gives f0, and in between the point on the line.
interp(x, x0, x1, f0, f1) ==
    IF x > x1 THEN Num(f1)
    ELSE IF x < x0 THEN Num(f0)
    ELSE IF x >= x1 THEN Num(f1)
    ELSE IF x = x0 THEN Num(f0)
    ELSE Plus(f0, Quot((f1 - f0) * (x - x0), x1 - x0))

\* np.clip(amount, 0, 1) of a fraction with a positive denominator.
Clip01(amount) ==
    IF amount[1] < 0 THEN Num(0)
    ELSE IF amount[1] > amount[2] THEN Num(1)
    ELSE amount

\* The angle between the stored angles a and b at the given fraction.
Lerp(a, b, amount) == Plus(a, Times(amount, b - a))

\* Quaternion.slerp(q0, q1, amount) of two stored rotations: the amount is
\* clipped to [0, 1]; at 0 the result is q0, at 1 it is q1.
slerp(r0, r1, amount) ==
    LET a == Clip01(amount) IN
    [yaw |-> Lerp(r0.yaw, r1.yaw, a), tilt |-> Lerp(r0.tilt, r1.tilt, a)]

\* The box of curr_ann_rec between the previous sample at t0 and the current
\* one at t1, for an instance the previous sample has too (lines 372-391).
InterpolatedBox(prev_ann_rec, curr_ann_rec, t0, t1, t) ==
    LET center == [i \in 1..3 |->
                     interp(t, t0, t1, prev_ann_rec.translation[i],
                            curr_ann_rec.translation[i])]
        rotation == slerp(prev_ann_rec.rotation, curr_ann_rec.rotation,
                          Quot(t - t0, t1 - t0))
    IN Box(center, curr_ann_rec.size, rotation,
           curr_ann_rec.category_name, curr_ann_rec.token)

\* The boxes of a capture of a sample without a previous one only.
NoPrevOnly(sd_record, curr_sample_record) == curr_sample_record.prev = ""

\* Line 344: the boxes are those of the current sample when there is no
\* previous sample or the capture is a key frame.
UseCurrent(sd_record, curr_sample_record) ==
    curr_sample_record.prev = "" \/ sd_record.is_key_frame

\* get_boxes: the boxes of the annotations of the sample of a capture, at
\* the time of the capture.
get_boxes(tabs, sample_data_token) ==
    LET sd_record == get(tabs, "sample_data", sample_data_token)
        reads1 == {<<"sample_data", sample_data_token>>} IN
    IF sd_record.err # "none" THEN Raises(sd_record.err, reads1) ELSE
    LET curr_sample_record == get(tabs, "sample", sd_record.val.sample_token)
        reads2 == reads1 \cup {<<"sample", sd_record.val.sample_token>>} IN
    IF curr_sample_record.err # "none" THEN Raises(curr_sample_record.err, reads2) ELSE
    LET curr == curr_sample_record.val IN
    IF UseCurrent(sd_record.val, curr)
    THEN LET boxes == MapGetBox(tabs, curr.anns) IN
         [boxes EXCEPT !.reads = @ \cup reads2]
    ELSE
    LET prev_sample_record == get(tabs, "sample", curr.prev)
        reads3 == reads2 \cup {<<"sample", curr.prev>>} IN
    IF prev_sample_record.err # "none" THEN Raises(prev_sample_record.err, reads3) ELSE
    LET prev == prev_sample_record.val
        curr_ann_recs == AnnRecs(tabs, curr.anns)
        prev_ann_recs == AnnRecs(tabs, prev.anns)
        reads4 == reads3 \cup AnnReads(curr.anns) \cup AnnReads(prev.anns)
        prev_inst_map == PrevInstMap(prev_ann_recs)
        t0 == prev.timestamp
        t1 == curr.timestamp
        t == ClampTime(t0, t1, sd_record.val.timestamp)
        known(rec) == rec.instance_token \in DOMAIN prev_inst_map
    IN
    \* (t - t0) / (t1 - t0) of two equal timestamps raises
    IF t1 = t0 /\ \E i \in 1..Len(curr_ann_recs) : known(curr_ann_recs[i])
    THEN Raises("ZeroDivisionError", reads4)
    ELSE Returns([i \in 1..Len(curr_ann_recs) |->
                    IF known(curr_ann_recs[i])
                    THEN InterpolatedBox(prev_inst_map[curr_ann_recs[i].instance_token],
                                         curr_ann_recs[i], t0, t1, t)
                    ELSE BoxOf(curr_ann_recs[i])],
                 reads4)

\* The value of selected_anntokens when the caller passes no list.
None == [given |-> FALSE, tokens |-> <<>>]

Selected(tokens) == [given |-> TRUE, tokens |-> tokens]

\* The pose steps of one box with the steps of the sensor taken before those
\* of the vehicle.
MoveBoxSensorFirst(box, pose_record, cs_record, flat_vehicle_coordinates) ==
    IF flat_vehicle_coordinates
    THEN rotate(translate(box, Neg(pose_record.translation)),
                Inverse(YawOnly(Quaternion(pose_record.rotation))))
    ELSE rotate(translate(rotate(translate(box, Neg(cs_record.translation)),
                                 Inverse(Quaternion(cs_record.rotation))),
                          Neg(pose_record.translation)),
                Inverse(Quaternion(pose_record.rotation)))

\* The pose steps of one box (lines 280-296): into the vehicle frame
\* levelled to the up axis, or into the frame of the sensor.
MoveBox(box, pose_record, cs_record, flat_vehicle_coordinates) ==
    IF flat_vehicle_coordinates
    THEN rotate(translate(box, Neg(pose_record.translation)),
                Inverse(YawOnly(Quaternion(pose_record.rotation))))
    ELSE rotate(translate(rotate(translate(box, Neg(pose_record.translation)),
                                 Inverse(Quaternion(pose_record.rotation))),
                          Neg(cs_record.translation)),
                Inverse(Quaternion(cs_record.rotation)))

\* box_in_image(box, cam_intrinsic, imsize, vis_level): the outcome of the
\* geometry check is an input, the set of the tokens of the boxes that pass
\* under the level asked for.
box_in_image(box, in_image) == box.token \in in_image

\* The boxes of the capture, whatever the caller selected.
BoxesOfCapture(tabs, sample_data_token, selected_anntokens) ==
    get_boxes(tabs, sample_data_token)

\* Lines 273-277: the boxes of the selected annotations when the caller
\* passed a list, those of get_boxes otherwise.
InitialBoxes(tabs, sample_data_token, selected_anntokens) ==
    IF selected_anntokens.given
    THEN MapGetBox(tabs, selected_anntokens.tokens)
    ELSE get_boxes(tabs, sample_data_token)

\* get_sample_data up to its loop (lines 259-277): the records, the path,
\* the intrinsic and the boxes before any pose step.
LookUpSampleData(tabs, sample_data_token, selected_anntokens) ==
    LET sd_record == get(tabs, "sample_data", sample_data_token)
        reads1 == {<<"sample_data", sample_data_token>>} IN
    IF sd_record.err # "none" THEN Raises(sd_record.err, reads1) ELSE
    LET cs_record == get(tabs, "calibrated_sensor", sd_record.val.calibrated_sensor_token)
        reads2 == reads1 \cup {<<"calibrated_sensor", sd_record.val.calibrated_sensor_token>>} IN
    IF cs_record.err # "none" THEN Raises(cs_record.err, reads2) ELSE
    LET sensor_record == get(tabs, "sensor", cs_record.val.sensor_token)
        reads3 == reads2 \cup {<<"sensor", cs_record.val.sensor_token>>} IN
    IF sensor_record.err # "none" THEN Raises(sensor_record.err, reads3) ELSE
    LET pose_record == get(tabs, "ego_pose", sd_record.val.ego_pose_token)
        reads4 == reads3 \cup {<<"ego_pose", sd_record.val.ego_pose_token>>} IN
    IF pose_record.err # "none" THEN Raises(pose_record.err, reads4) ELSE
    LET path == get_sample_data_path(tabs, sample_data_token)
        camera == sensor_record.val.modality = "camera"
        cam_intrinsic == IF camera THEN cs_record.val.camera_intrinsic ELSE "None"
        boxes == InitialBoxes(tabs, sample_data_token, selected_anntokens)
        reads5 == reads4 \cup boxes.reads
    IN
    IF boxes.err # "none" THEN Raises(boxes.err, reads5)
    ELSE Returns([data_path |-> path.val, boxes |-> boxes.val,
                  cam_intrinsic |-> cam_intrinsic, camera |-> camera,
                  pose_record |-> pose_record.val, cs_record |-> cs_record.val], reads5)

\* The boxes in the image, whatever the sensor is.
KeepBoxesInImage(moved, camera, in_image) ==
    SelectSeq(moved, LAMBDA box : box_in_image(box, in_image))

\* The boxes the loop appends to box_list (lines 298-301): every box for a
\* sensor that is no camera, the boxes in the image for a camera.
KeepBoxes(moved, camera, in_image) ==
    SelectSeq(moved, LAMBDA box : ~(camera /\ ~box_in_image(box, in_image)))

\* The loop of get_sample_data and its return (lines 279-305), given what
\* the lookups found.
MoveAndKeep(found, in_image, flat_vehicle_coordinates) ==
    Returns([data_path |-> found.val.data_path,
             box_list |-> KeepBoxes([i \in 1..Len(found.val.boxes) |->
                                       MoveBox(found.val.boxes[i], found.val.pose_record,
                                               found.val.cs_record,
                                               flat_vehicle_coordinates)],
                                    found.val.camera, in_image),
             cam_intrinsic |-> found.val.cam_intrinsic], found.reads)

\* What get_sample_data gives once its lookups are done: their exception,
\* or the moved boxes it keeps.
AfterLookUp(found, in_image, flat_vehicle_coordinates) ==
    IF found.err # "none" THEN found
    ELSE MoveAndKeep(found, in_image, flat_vehicle_coordinates)

\* get_sample_data: the file path, the boxes and the camera intrinsic of a
\* capture; the lookups are made once, before the loop over the boxes.
get_sample_data(tabs, sample_data_token, in_image, selected_anntokens, flat_vehicle_coordinates) ==
    CHOOSE r \in { AfterLookUp(found, in_image, flat_vehicle_coordinates) :
                     found \in {LookUpSampleData(tabs, sample_data_token,
                                                 selected_anntokens)} } : TRUE

\* np.array([np.nan, np.nan, np.nan])
NaNVec == <<NaN, NaN, NaN>>

\* No annotation is taken for one without links.
NeverUnlinked(has_prev, has_next) == FALSE

\* Line 419: the annotation has neither a previous nor a next one.
Unlinked(has_prev, has_next) == ~has_prev /\ ~has_next

\* The gap allowed whatever links there are.
AllowedGapOneSided(has_prev, has_next, max_time_diff) == max_time_diff

\* Lines 441-442: the gap allowed between first and last is doubled when
\* the annotation has both links.
AllowedGap(has_prev, has_next, max_time_diff) ==
    IF has_next /\ has_prev THEN max_time_diff * 2 ELSE max_time_diff

\* box_velocity: the velocity of an annotation in metres per second, from
\* the annotations before and after it.  max_time_diff is in microseconds.
box_velocity(tabs, sample_annotation_token, max_time_diff) ==
    LET current == get(tabs, "sample_annotation", sample_annotation_token)
        reads1 == {<<"sample_annotation", sample_annotation_token>>} IN
    IF current.err # "none" THEN Raises(current.err, reads1) ELSE
    LET has_prev == current.val.prev # ""
        has_next == current.val.next # "" IN
    IF Unlinked(has_prev, has_next) THEN Returns(NaNVec, reads1) ELSE
    LET first == IF has_prev THEN get(tabs, "sample_annotation", current.val.prev)
                 ELSE Ok(current.val)
        reads2 == reads1 \cup
                  (IF has_prev THEN {<<"sample_annotation", current.val.prev>>} ELSE {}) IN
    IF first.err # "none" THEN Raises(first.err, reads2) ELSE
    LET last == IF has_next THEN get(tabs, "sample_annotation", current.val.next)
                ELSE Ok(current.val)
        reads3 == reads2 \cup
                  (IF has_next THEN {<<"sample_annotation", current.val.next>>} ELSE {}) IN
    IF last.err # "none" THEN Raises(last.err, reads3) ELSE
    LET pos_diff == Minus(last.val.translation, first.val.translation)
        last_sample == get(tabs, "sample", last.val.sample_token)
        reads4 == reads3 \cup {<<"sample", last.val.sample_token>>} IN
    IF last_sample.err # "none" THEN Raises(last_sample.err, reads4) ELSE
    LET first_sample == get(tabs, "sample", first.val.sample_token)
        reads5 == reads4 \cup {<<"sample", first.val.sample_token>>} IN
    IF first_sample.err # "none" THEN Raises(first_sample.err, reads5) ELSE
    LET time_diff == last_sample.val.timestamp - first_sample.val.timestamp
        allowed == AllowedGap(has_prev, has_next, max_time_diff)
    IN
    IF time_diff > allowed THEN Returns(NaNVec, reads5)
    ELSE Returns([i \in 1..3 |-> Quot(pos_diff[i] * MicrosPerSecond, time_diff)], reads5)

\* A search that ends at the first record whose field has the value.
field2tokenFirstMatch(tabs, table_name, field, query) ==
    IF table_name \notin DOMAIN tabs THEN Raises("AttributeError", {})
    ELSE IF \E i \in 1..Len(tabs[table_name]) : field \notin DOMAIN tabs[table_name][i]
    THEN Raises("KeyError", {})
    ELSE LET matches == SelectSeq(tabs[table_name], LAMBDA member : member[field] = query)
         IN Returns(IF matches = <<>> THEN <<>> ELSE <<matches[1].token>>, {})

\* field2token: the tokens of the records of a table whose field has the
\* given value, in table order.  A name that is no table and a record
\* without the field raise.
field2token(tabs, table_name, field, query) ==
    IF table_name \notin DOMAIN tabs THEN Raises("AttributeError", {})
    ELSE IF \E i \in 1..Len(tabs[table_name]) : field \notin DOMAIN tabs[table_name][i]
    THEN Raises("KeyError", {})
    ELSE LET matches == SelectSeq(tabs[table_name], LAMBDA member : member[field] = query)
         IN Returns([i \in 1..Len(matches) |-> matches[i].token], {})

\* The loop of ann_count (lines 620-622): the annotations of sample are
\* added and the loop moves on while sample has a next one.
RECURSIVE CountAnns(_, _, _)
CountAnns(tabs, sample, count) ==
    IF sample.next = "" THEN Returns(count, {})
    ELSE LET after == get(tabs, "sample", sample.next) IN
         IF after.err # "none" THEN Raises(after.err, {})
         ELSE CountAnns(tabs, after.val, count + Len(sample.anns))

\* ann_count(record) of list_scenes: the number of annotations it reports
\* for the scene record.
ann_count(tabs, record) ==
    LET sample == get(tabs, "sample", record.first_sample_token) IN
    IF sample.err # "none" THEN Raises(sample.err, {})
    ELSE CountAnns(tabs, sample.val, 0)

\* ---------------------------------------------------------- query actions

\* The longest list of annotation tokens a caller selects.
MaxSelected == 2

\* The lists a caller may pass as selected_anntokens: the tokens of the
\* annotations of s2 that the table has and a token nothing carries, in any
\* order, repeated or not.
SelectedLists ==
    { Selected(s) :
        s \in SeqUpTo((Tokens(tables["sample_annotation"])
                         \cap {AnnToken[1][2], AnnToken[2][2]}) \cup {"zz"},
                      MaxSelected) \ {<<>>} }

\* The channel of a capture is a camera.
IsCamera(sample_data_token) ==
    LET sd == get(tables, "sample_data", sample_data_token) IN
    /\ sd.err = "none"
    /\ LET cs == get(tables, "calibrated_sensor", sd.val.calibrated_sensor_token).val
       IN get(tables, "sensor", cs.sensor_token).val.modality = "camera"

\* The tokens of the boxes get_sample_data hands to box_in_image: those it
\* builds for a camera, none for another sensor.
Candidates(sample_data_token, selected_anntokens) ==
    IF ~IsCamera(sample_data_token) THEN {}
    ELSE IF selected_anntokens.given
    THEN { selected_anntokens.tokens[i] : i \in 1..Len(selected_anntokens.tokens) }
    ELSE LET sd == get(tables, "sample_data", sample_data_token) IN
         IF sd.err # "none" THEN {}
         ELSE LET anns == get(tables, "sample", sd.val.sample_token).val.anns IN
              { anns[i] : i \in 1..Len(anns) }

\* max_time_diff as callers pass it: a second, and the default 1.5 s.
MaxTimeDiffs == {2 * HalfSecond, 3 * HalfSecond}

GetSampleDataPath ==
    /\ pc = "ready"
    /\ result.op = "none"
    /\ \E token \in QueryTokens("sample_data") :
         LET r == get_sample_data_path(tables, token) IN
         result' = [op |-> "get_sample_data_path", token |-> token,
                    err |-> r.err, val |-> r.val, reads |-> r.reads]
    /\ UNCHANGED <<files, missing_tables_ok, tables, token2ind, explorer, pc, error>>

GetBox ==
    /\ pc = "ready"
    /\ result.op = "none"
    /\ \E token \in QueryTokens("sample_annotation") :
         LET r == get_box(tables, token) IN
         result' = [op |-> "get_box", token |-> token,
                    err |-> r.err, val |-> r.val, reads |-> r.reads]
    /\ UNCHANGED <<files, missing_tables_ok, tables, token2ind, explorer, pc, error>>

GetBoxes ==
    /\ pc = "ready"
    /\ result.op = "none"
    /\ \E token \in QueryTokens("sample_data") :
         LET r == get_boxes(tables, token) IN
         result' = [op |-> "get_boxes", token |-> token,
                    err |-> r.err, val |-> r.val, reads |-> r.reads]
    /\ UNCHANGED <<files, missing_tables_ok, tables, token2ind, explorer, pc, error>>

\* get_sample_data with boxes that share the translation of their
\* annotation records: the first pose step moves the stored record too.
GetSampleDataInPlace ==
    /\ pc = "ready"
    /\ result.op = "none"
    /\ \E token \in QueryTokens("sample_data") :
       \E selected_anntokens \in {None} \cup SelectedLists :
       \E in_image \in SUBSET Candidates(token, selected_anntokens) :
       \E flat_vehicle_coordinates \in BOOLEAN :
         LET r == get_sample_data(tables, token, in_image, selected_anntokens,
                                  flat_vehicle_coordinates)
             moved == IF r.err = "none" THEN r.val.box_list ELSE <<>>
             shift(rec) ==
                 IF \E i \in 1..Len(moved) : moved[i].token = rec.token
                 THEN LET box == moved[CHOOSE i \in 1..Len(moved) : moved[i].token = rec.token]
                      IN [rec EXCEPT !.translation =
                            [k \in 1..3 |-> @[k] + box.moves[1].x[k]]]
                 ELSE rec
         IN
         /\ result' = [op |-> "get_sample_data", token |-> token, in_image |-> in_image,
                       selected_anntokens |-> selected_anntokens,
                       flat_vehicle_coordinates |-> flat_vehicle_coordinates,
                       err |-> r.err, val |-> r.val, reads |-> r.reads]
         /\ tables' = [tables EXCEPT !["sample_annotation"] =
                         [i \in 1..Len(@) |-> shift(@[i])]]
    /\ UNCHANGED <<files, missing_tables_ok, token2ind, explorer, pc, error>>

GetSampleData ==
    /\ pc = "ready"
    /\ result.op = "none"
    /\ \E token \in QueryTokens("sample_data") :
       \E selected_anntokens \in {None} \cup SelectedLists :
       \E in_image \in SUBSET Candidates(token, selected_anntokens) :
       \E flat_vehicle_coordinates \in BOOLEAN :
         LET r == get_sample_data(tables, token, in_image, selected_anntokens,
                                  flat_vehicle_coordinates) IN
         result' = [op |-> "get_sample_data", token |-> token, in_image |-> in_image,
                    selected_anntokens |-> selected_anntokens,
                    flat_vehicle_coordinates |-> flat_vehicle_coordinates,
                    err |-> r.err, val |-> r.val, reads |-> r.reads]
    /\ UNCHANGED <<files, missing_tables_ok, tables, token2ind, explorer, pc, error>>

BoxVelocity ==
    /\ pc = "ready"
    /\ result.op = "none"
    /\ \E token \in QueryTokens("sample_annotation") :
       \E max_time_diff \in MaxTimeDiffs :
         LET r == box_velocity(tables, token, max_time_diff) IN
         result' = [op |-> "box_velocity", token |-> token,
                    max_time_diff |-> max_time_diff,
                    err |-> r.err, val |-> r.val, reads |-> r.reads]
    /\ UNCHANGED <<files, missing_tables_ok, tables, token2ind, explorer, pc, error>>

Field2Token ==
    /\ pc = "ready"
    /\ result.op = "none"
    /\ \E table_name \in {"sample_annotation", "sample_data", "lidarseg"} :
       \E field \in {"sample_token", "instance_token"} :
       \E query \in {"s1", "s2", "i1", "zz"} :
         LET r == field2token(tables, table_name, field, query) IN
         result' = [op |-> "field2token", table_name |-> table_name, field |-> field,
                    query |-> query, err |-> r.err, val |-> r.val, reads |-> r.reads]
    /\ UNCHANGED <<files, missing_tables_ok, tables, token2ind, explorer, pc, error>>

\* A caller invokes list_scenes: the annotation count printed for each scene.
ListScenes ==
    /\ pc = "ready"
    /\ result.op = "none"
    /\ LET counts == [i \in 1..Len(tables.scene) |-> ann_count(tables, tables.scene[i])] IN
       result' = [op |-> "list_scenes",
                  err |-> IF \A i \in DOMAIN counts : counts[i].err = "none"
                          THEN "none"
                          ELSE counts[CHOOSE i \in DOMAIN counts :
                                        /\ counts[i].err # "none"
                                        /\ \A j \in 1..(i - 1) : counts[j].err = "none"].err,
                  val |-> [i \in DOMAIN counts |-> counts[i].val]]
    /\ UNCHANGED <<files, missing_tables_ok, tables, token2ind, explorer, pc, error>>

NextScene ==
    \/ Next
    \/ GetSampleDataPath
    \/ GetBox
    \/ GetBoxes
    \/ GetSampleData
    \/ BoxVelocity
    \/ Field2Token
    \/ ListScenes

SpecScene == InitScene /\ [][NextScene]_vars

\* ----------------------------------------------------- concurrent queries
\* Several threads query one constructed object.  A thread runs one call:
\* it looks its records up in the shared tables, get_sample_data then moves
\* its boxes one at a time, and the call returns.  The steps of the threads
\* interleave in any order.  result holds the threads: the tables as
\* construction left them and the state of every thread, which notes whether
\* the thread made its lookups while another was moving boxes.

NThreads == 2

Call(op, token, selected_anntokens, in_image, flat, max_time_diff) ==
    [op |-> op, token |-> token, selected_anntokens |-> selected_anntokens,
     in_image |-> in_image, flat_vehicle_coordinates |-> flat,
     max_time_diff |-> max_time_diff]

\* The calls a thread may make: the three read-only queries, on a camera
\* and a lidar capture between two samples.
ThreadCalls ==
    { Call("get_boxes", "d4", None, {}, FALSE, 0),
      Call("get_sample_data", "d3", None, {"a12"}, FALSE, 0),
      Call("get_sample_data", "d4", Selected(<<"a12">>), {}, TRUE, 0),
      Call("box_velocity", "a12", None, {}, FALSE, 3 * HalfSecond) }

\* The scenes the threads query: both instances annotated in s1 and s2.
ThreadScenes ==
    { Scene(ts2, 6 * HalfSecond, {1, 2, 3}, {1, 2}) :
        ts2 \in {HalfSecond, 2 * HalfSecond, 4 * HalfSecond} }

InitThreads ==
    /\ files \in { OnDisk(f) : f \in ThreadScenes }
    /\ missing_tables_ok = FALSE
    /\ tables = EmptyDict
    /\ token2ind = EmptyDict
    /\ explorer = FALSE
    /\ pc = "load"
    /\ error = "none"
    /\ result = [op |-> "none"]

\* What a call gives or raises.
Outcome(r) == [err |-> r.err, val |-> r.val]

\* The threads start, each with a call.
Spawn ==
    /\ pc = "ready"
    /\ result.op = "none"
    /\ \E calls \in [1..NThreads -> ThreadCalls] :
         result' = [op |-> "threads", loaded |-> tables,
                    th |-> [i \in 1..NThreads |->
                              [call |-> calls[i], at |-> "call", overlapped |-> FALSE,
                               found |-> <<>>, moved |-> <<>>, out |-> Ok(<<>>)]]]
    /\ UNCHANGED <<files, missing_tables_ok, tables, token2ind, explorer, pc, error>>

\* The state of the threads after thread i has become t.
Step(i, t) == [result EXCEPT !.th[i] = t]

\* Another thread than i is in the loop of get_sample_data and has moved a
\* box.
OtherMoving(i) ==
    \E j \in 1..NThreads :
        j # i /\ result.th[j].at = "move" /\ Len(result.th[j].moved) > 0

\* A thread looks up the records of its call in the tables as they are now.
\* get_boxes and box_velocity have their value from the records alone;
\* get_sample_data goes on to move its boxes.
ThreadLookUp ==
    /\ pc = "ready"
    /\ result.op = "threads"
    /\ \E i \in 1..NThreads :
         LET t == [result.th[i] EXCEPT !.overlapped = OtherMoving(i)]
             c == t.call IN
         /\ t.at = "call"
         /\ result' =
              IF c.op = "get_boxes"
              THEN Step(i, [t EXCEPT !.at = "done",
                                     !.out = Outcome(get_boxes(tables, c.token))])
              ELSE IF c.op = "box_velocity"
              THEN Step(i, [t EXCEPT !.at = "done",
                                     !.out = Outcome(box_velocity(tables, c.token,
                                                                  c.max_time_diff))])
              ELSE LET found == LookUpSampleData(tables, c.token, c.selected_anntokens) IN
                   IF found.err # "none"
                   THEN Step(i, [t EXCEPT !.at = "done", !.out = Outcome(found)])
                   ELSE Step(i, [t EXCEPT !.at = "move", !.found = found.val])
    /\ UNCHANGED <<files, missing_tables_ok, tables, token2ind, explorer, pc, error>>

\* A thread in the loop of get_sample_data moves its next box, and the
\* annotation record the box was made from as well.
ThreadMoveInPlace ==
    /\ pc = "ready"
    /\ result.op = "threads"
    /\ \E i \in 1..NThreads :
         LET t == result.th[i]
             k == Len(t.moved) + 1 IN
         /\ t.at = "move"
         /\ k <= Len(t.found.boxes)
         /\ LET box == MoveBox(t.found.boxes[k], t.found.pose_record,
                               t.found.cs_record, t.call.flat_vehicle_coordinates)
                shift(rec) == IF rec.token = box.token
                              THEN [rec EXCEPT !.translation =
                                      [j \in 1..3 |-> @[j] + box.moves[1].x[j]]]
                              ELSE rec
            IN /\ result' = Step(i, [t EXCEPT !.moved = Append(@, box)])
               /\ tables' = [tables EXCEPT !["sample_annotation"] =
                               [j \in 1..Len(@) |-> shift(@[j])]]
    /\ UNCHANGED <<files, missing_tables_ok, token2ind, explorer, pc, error>>

\* A thread in the loop of get_sample_data moves its next box, which is its
\* own.
ThreadMove ==
    /\ pc = "ready"
    /\ result.op = "threads"
    /\ \E i \in 1..NThreads :
         LET t == result.th[i]
             k == Len(t.moved) + 1 IN
         /\ t.at = "move"
         /\ k <= Len(t.found.boxes)
         /\ result' = Step(i, [t EXCEPT !.moved = Append(@,
                                 MoveBox(t.found.boxes[k], t.found.pose_record,
                                         t.found.cs_record,
                                         t.call.flat_vehicle_coordinates))])
    /\ UNCHANGED <<files, missing_tables_ok, tables, token2ind, explorer, pc, error>>

\* get_sample_data returns in a thread that has moved all its boxes.
ThreadReturn ==
    /\ pc = "ready"
    /\ result.op = "threads"
    /\ \E i \in 1..NThreads :
         LET t == result.th[i] IN
         /\ t.at = "move"
         /\ Len(t.moved) = Len(t.found.boxes)
         /\ result' = Step(i, [t EXCEPT
                 !.at = "done",
                 !.out = Ok([data_path |-> t.found.data_path,
                             box_list |-> KeepBoxes(t.moved, t.found.camera,
                                                    t.call.in_image),
                             cam_intrinsic |-> t.found.cam_intrinsic])])
    /\ UNCHANGED <<files, missing_tables_ok, tables, token2ind, explorer, pc, error>>

NextThreads ==
    \/ LoadTable
    \/ MapMask
    \/ BuildToken2Ind
    \/ CategoryName
    \/ SensorInfo
    \/ InitSample
    \/ KeyFrameData
    \/ Anns
    \/ LogToMap
    \/ CreateExplorer
    \/ Spawn
    \/ ThreadLookUp
    \/ ThreadMove
    \/ ThreadReturn

SpecThreads == InitThreads /\ [][NextThreads]_vars

\* ------------------------------------------------------ claims on queries

\* A query has returned a value.
Returned(op) == pc = "ready" /\ result.op = op /\ result.err = "none"

\* C11: once construction is complete, a step of any query (get, getind,
\* field2token, get_sample_data_path, get_box, get_boxes, get_sample_data,
\* box_velocity), after any sequence of earlier queries, leaves every table
\* record with its derived fields and the token index as they were; the
\* translate and rotate steps of get_sample_data move the returned boxes,
\* never the stored annotations.
C11_QueriesChangeNothing ==
    [][pc = "ready" => tables' = tables /\ token2ind' = token2ind]_vars

\* get_sample_data has returned boxes it moved.
C11_Witness ==
    /\ Returned("get_sample_data")
    /\ \E i \in 1..Len(result.val.box_list) :
          /\ Len(result.val.box_list[i].moves) > 0
          /\ \E j \in 1..Len(tables["sample_annotation"]) :
                /\ tables["sample_annotation"][j].token = result.val.box_list[i].token
                /\ NumVec(tables["sample_annotation"][j].translation)
                     = result.val.box_list[i].center

\* What a call gives when it runs alone on the tables tabs.
Alone(tabs, c) ==
    IF c.op = "get_boxes" THEN Outcome(get_boxes(tabs, c.token))
    ELSE IF c.op = "box_velocity"
    THEN Outcome(box_velocity(tabs, c.token, c.max_time_diff))
    ELSE Outcome(get_sample_data(tabs, c.token, c.in_image, c.selected_anntokens,
                                 c.flat_vehicle_coordinates))

\* C12: threads run read-only queries (get_boxes, get_sample_data,
\* box_velocity) on one constructed object, their steps interleaved in any
\* order: every call that has returned or raised has the outcome the same
\* call has alone on the tables as construction left them.
C12_ThreadsAgree ==
    (pc = "ready" /\ result.op = "threads") =>
        \A i \in 1..NThreads :
            result.th[i].at = "done" =>
                result.th[i].out = Alone(result.loaded, result.th[i].call)

\* Two calls of get_sample_data have returned boxes, one of them having made
\* its lookups while the other was moving its boxes.
C12_Witness ==
    /\ pc = "ready"
    /\ result.op = "threads"
    /\ \A i \in 1..2 :
          /\ result.th[i].at = "done"
          /\ result.th[i].call.op = "get_sample_data"
          /\ result.th[i].out.err = "none"
          /\ Len(result.th[i].out.val.box_list) > 0
    /\ result.th[2].overlapped

\* The record of a table with the given token (tokens of the scenes are
\* unique in their table).
Stored(table_name, token) ==
    tables[table_name][CHOOSE i \in 1..Len(tables[table_name]) :
                          tables[table_name][i].token = token]

\* The capture a call of get_boxes or get_sample_data was made for is in
\* the table.
KnownCapture(token) == \E i \in 1..Len(tables["sample_data"]) :
                           tables["sample_data"][i].token = token

\* The box b is the stored annotation a, unmoved.
SameAsStored(b, a) ==
    /\ b.token = a.token
    /\ b.center = NumVec(a.translation)
    /\ b.size = a.size
    /\ b.orientation = Quaternion(a.rotation)
    /\ b.name = a.category_name
    /\ b.moves = <<>>

\* C13: get_boxes(D) for a capture D of sample S that is a key frame, or
\* whose S has no previous sample, returns one box per token of S.anns, in
\* that order, each with the translation, size and rotation of S's own
\* annotation record, and reads no sample but S.
C13_CurrentBoxes ==
    (pc = "ready" /\ result.op = "get_boxes" /\ KnownCapture(result.token)) =>
        LET D == Stored("sample_data", result.token)
            S == Stored("sample", D.sample_token) IN
        (D.is_key_frame \/ S.prev = "") =>
            /\ result.err = "none"
            /\ Len(result.val) = Len(S.anns)
            /\ \A i \in 1..Len(S.anns) :
                  SameAsStored(result.val[i], Stored("sample_annotation", S.anns[i]))
            /\ \A r \in result.reads : r[1] = "sample" => r[2] = S.token

\* get_boxes returned two boxes for a key frame between two samples that
\* both annotate an instance of the capture's sample.
C13_Witness ==
    /\ Returned("get_boxes")
    /\ LET D == Stored("sample_data", result.token)
           S == Stored("sample", D.sample_token) IN
       /\ D.is_key_frame
       /\ S.prev # ""
       /\ Stored("sample", S.prev).timestamp < D.timestamp
       /\ D.timestamp < S.timestamp
       /\ Len(result.val) = 2
       /\ \E j \in 1..Len(Stored("sample", S.prev).anns) :
             Stored("sample_annotation", Stored("sample", S.prev).anns[j]).instance_token
               = Stored("sample_annotation", S.anns[1]).instance_token

\* The instances the annotations of the sample with the given token are of.
InstancesOf(sample_token) ==
    LET anns == Stored("sample", sample_token).anns IN
    { Stored("sample_annotation", anns[j]).instance_token : j \in 1..Len(anns) }

\* get_boxes has returned for a capture D that is no key frame and whose
\* sample has a previous sample.
BetweenSamples ==
    /\ Returned("get_boxes")
    /\ KnownCapture(result.token)
    /\ ~Stored("sample_data", result.token).is_key_frame
    /\ Stored("sample", Stored("sample_data", result.token).sample_token).prev # ""

\* C14: get_boxes(D) for a capture D that is no key frame, of a sample S
\* with previous sample P: the box of every annotation of S whose instance
\* no annotation of P is of has the translation and rotation of S's record,
\* unmodified, whatever the timestamp of D.
C14_NewInstanceUnmodified ==
    BetweenSamples =>
        LET S == Stored("sample", Stored("sample_data", result.token).sample_token) IN
        /\ Len(result.val) = Len(S.anns)
        /\ \A i \in 1..Len(S.anns) :
              LET a == Stored("sample_annotation", S.anns[i]) IN
              a.instance_token \notin InstancesOf(S.prev) =>
                  SameAsStored(result.val[i], a)

\* get_boxes returned, for a capture strictly between the two samples, the
\* box of an instance the previous sample has not, next to the box of an
\* instance it has.
C14_Witness ==
    /\ BetweenSamples
    /\ LET D == Stored("sample_data", result.token)
           S == Stored("sample", D.sample_token) IN
       /\ Stored("sample", S.prev).timestamp < D.timestamp
       /\ D.timestamp < S.timestamp
       /\ \E i, j \in 1..Len(S.anns) :
             /\ Stored("sample_annotation", S.anns[i]).instance_token
                  \notin InstancesOf(S.prev)
             /\ Stored("sample_annotation", S.anns[j]).instance_token
                  \in InstancesOf(S.prev)

\* The last annotation of the sample with the given token that is of the
\* given instance.
AnnotationOf(sample_token, instance_token) ==
    LET anns == Stored("sample", sample_token).anns
        j == CHOOSE j \in 1..Len(anns) :
               /\ Stored("sample_annotation", anns[j]).instance_token = instance_token
               /\ \A k \in (j + 1)..Len(anns) :
                     Stored("sample_annotation", anns[k]).instance_token # instance_token
    IN Stored("sample_annotation", anns[j])

\* The box b has the translation and rotation of the stored annotation a.
PoseOf(b, a) ==
    /\ b.center = NumVec(a.translation)
    /\ b.orientation = Quaternion(a.rotation)

\* C15: get_boxes(D) for a capture D that is no key frame, of a sample S
\* after a previous sample P with P.timestamp < S.timestamp, interpolates at
\* t = D.timestamp clamped to [P.timestamp, S.timestamp]: the box of every
\* instance annotated in both has its centre on the line from P's to S's
\* translation at t; for D.timestamp <= P.timestamp it has exactly P's
\* translation and rotation, for D.timestamp >= S.timestamp exactly S's.
C15_ClampedInterpolation ==
    BetweenSamples =>
        LET D == Stored("sample_data", result.token)
            S == Stored("sample", D.sample_token)
            P == Stored("sample", S.prev)
            t0 == P.timestamp
            t1 == S.timestamp
            t == IF D.timestamp < t0 THEN t0
                 ELSE IF D.timestamp > t1 THEN t1 ELSE D.timestamp
        IN
        t0 < t1 =>
            \A i \in 1..Len(S.anns) :
                LET a == Stored("sample_annotation", S.anns[i]) IN
                a.instance_token \in InstancesOf(P.token) =>
                    LET p == AnnotationOf(P.token, a.instance_token)
                        b == result.val[i] IN
                    /\ b.token = a.token
                    /\ \A k \in 1..3 :
                          b.center[k] = Quot(p.translation[k] * (t1 - t0)
                                               + (a.translation[k] - p.translation[k]) * (t - t0),
                                             t1 - t0)
                    /\ D.timestamp <= t0 => PoseOf(b, p)
                    /\ D.timestamp >= t1 => PoseOf(b, a)

\* get_boxes returned the box of an instance that stands and is turned
\* differently in P and in S, for a capture later than S, itself later
\* than P.
C15_Witness ==
    /\ BetweenSamples
    /\ LET D == Stored("sample_data", result.token)
           S == Stored("sample", D.sample_token)
           P == Stored("sample", S.prev) IN
       /\ P.timestamp < S.timestamp
       /\ S.timestamp < D.timestamp
       /\ \E i \in 1..Len(S.anns) :
             LET a == Stored("sample_annotation", S.anns[i]) IN
             /\ a.instance_token \in InstancesOf(P.token)
             /\ AnnotationOf(P.token, a.instance_token).translation # a.translation
             /\ AnnotationOf(P.token, a.instance_token).rotation # a.rotation
             /\ PoseOf(result.val[i], a)

\* get_boxes was called for a capture D that is no key frame and whose
\* sample has a previous sample, and has returned or raised.
CalledBetweenSamples ==
    /\ pc = "ready"
    /\ result.op = "get_boxes"
    /\ KnownCapture(result.token)
    /\ ~Stored("sample_data", result.token).is_key_frame
    /\ Stored("sample", Stored("sample_data", result.token).sample_token).prev # ""

\* C16: get_boxes(D) for a capture D that is no key frame, of a sample S
\* whose previous sample P has the same timestamp, does not fail with a
\* division by zero: it returns, and the box of every instance annotated in
\* both samples has S's translation and rotation.
C16_EqualTimestampsGuarded ==
    CalledBetweenSamples =>
        LET S == Stored("sample", Stored("sample_data", result.token).sample_token)
            P == Stored("sample", S.prev) IN
        P.timestamp = S.timestamp =>
            /\ result.err = "none"
            /\ \A i \in 1..Len(S.anns) :
                  LET a == Stored("sample_annotation", S.anns[i]) IN
                  a.instance_token \in InstancesOf(P.token) =>
                      PoseOf(result.val[i], a)

\* The modality of the sensor of the capture with the given token.
Modality(sample_data_token) ==
    LET cs == Stored("calibrated_sensor",
                     Stored("sample_data", sample_data_token).calibrated_sensor_token)
    IN Stored("sensor", cs.sensor_token).modality

\* The boxes a returned call of get_sample_data started from: those of the
\* selected annotations, or those of get_boxes.
Produced ==
    IF result.selected_anntokens.given
    THEN MapGetBox(tables, result.selected_anntokens.tokens).val
    ELSE get_boxes(tables, result.token).val

\* A moved box as it was before the pose steps.
Unmoved(box) == [box EXCEPT !.moves = <<>>]

\* C17: get_sample_data for a capture of a lidar or radar discards no box:
\* box_list holds every box get_boxes (or the selected annotations) gave, in
\* the same order.  For a capture of a camera box_list is exactly the
\* sub-list, order kept, of the boxes that pass the visibility check.
C17_OnlyCamerasFilter ==
    Returned("get_sample_data") =>
        LET kept == IF Modality(result.token) = "camera"
                    THEN SelectSeq(Produced, LAMBDA b : b.token \in result.in_image)
                    ELSE Produced
            box_list == result.val.box_list
        IN /\ Modality(result.token) \in {"camera", "lidar", "radar"}
           /\ Len(box_list) = Len(kept)
           /\ \A i \in 1..Len(kept) : Unmoved(box_list[i]) = kept[i]

\* get_sample_data returned, for a camera, the second of two boxes and not
\* the first.
C17_Witness ==
    /\ Returned("get_sample_data")
    /\ Modality(result.token) = "camera"
    /\ Len(Produced) = 2
    /\ Produced[1].token \notin result.in_image
    /\ Len(result.val.box_list) = 1
    /\ result.val.box_list[1].token = Produced[2].token

\* box_list is, box by box, the sequence want of unmoved boxes.
BoxListIs(want) ==
    /\ Len(result.val.box_list) = Len(want)
    /\ \A i \in 1..Len(want) : Unmoved(result.val.box_list[i]) = want[i]

\* C18: get_sample_data called with a list of annotation tokens builds its
\* boxes from the records of those tokens, one box per token in the order
\* given and with the stored translation and rotation, also when the
\* capture is no key frame; called without a list it starts from
\* get_boxes(D).  (A camera then keeps the boxes in the image, C17.)
C18_SelectedAnnotations ==
    Returned("get_sample_data") =>
        LET passes(token) == Modality(result.token) = "camera" => token \in result.in_image
        IN
        IF result.selected_anntokens.given
        THEN LET want == SelectSeq(result.selected_anntokens.tokens, passes) IN
             /\ Len(result.val.box_list) = Len(want)
             /\ \A i \in 1..Len(want) :
                   SameAsStored(Unmoved(result.val.box_list[i]),
                                Stored("sample_annotation", want[i]))
        ELSE BoxListIs(SelectSeq(get_boxes(tables, result.token).val,
                                 LAMBDA b : passes(b.token)))

\* get_sample_data returned two boxes for two selected tokens, for a capture
\* that is no key frame and for which get_boxes interpolates the annotation
\* selected first.
C18_Witness ==
    /\ Returned("get_sample_data")
    /\ result.selected_anntokens.given
    /\ Len(result.selected_anntokens.tokens) = 2
    /\ Len(result.val.box_list) = 2
    /\ ~Stored("sample_data", result.token).is_key_frame
    /\ LET boxes == get_boxes(tables, result.token) IN
       /\ boxes.err = "none"
       /\ \E i \in 1..Len(boxes.val) :
             /\ boxes.val[i].token = result.selected_anntokens.tokens[1]
             /\ boxes.val[i] # Unmoved(result.val.box_list[1])

\* box_velocity was called for an annotation of the table, and has returned
\* or raised.
VelocityCalled ==
    /\ pc = "ready"
    /\ result.op = "box_velocity"
    /\ \E i \in 1..Len(tables["sample_annotation"]) :
          tables["sample_annotation"][i].token = result.token

\* C19: box_velocity of an annotation whose prev and next are both ""
\* returns (NaN, NaN, NaN) as a value, raises nothing, and looks up no
\* annotation and no sample but the annotation itself, whatever
\* max_time_diff is.
C19_UnlinkedIsNaN ==
    VelocityCalled =>
        LET a == Stored("sample_annotation", result.token) IN
        (a.prev = "" /\ a.next = "") =>
            /\ result.err = "none"
            /\ result.val = <<NaN, NaN, NaN>>
            /\ result.reads = {<<"sample_annotation", a.token>>}

\* box_velocity returned for an annotation without links, called with a
\* max_time_diff other than the default.
C19_Witness ==
    /\ VelocityCalled
    /\ Stored("sample_annotation", result.token).prev = ""
    /\ Stored("sample_annotation", result.token).next = ""
    /\ result.max_time_diff = MicrosPerSecond
    /\ result.val = <<NaN, NaN, NaN>>

\* C20: box_velocity of an annotation a with at least one link takes as
\* first the annotation a.prev names, or a itself when prev is "", and as
\* last the one a.next names, or a itself when next is ""; it looks up
\* these and their samples only; a velocity it returns is the translation
\* of last minus that of first, divided by the difference of the timestamps
\* of their samples in seconds, and it returns one whenever that difference
\* is at most max_time_diff.  An annotation at (0, 0, 0) whose only link is
\* next, to one at (2, 0, 0) a second later, has velocity (2, 0, 0).
C20_VelocityFromLinks ==
    VelocityCalled =>
        LET a == Stored("sample_annotation", result.token) IN
        (a.prev # "" \/ a.next # "") =>
            LET first == IF a.prev # "" THEN Stored("sample_annotation", a.prev) ELSE a
                last == IF a.next # "" THEN Stored("sample_annotation", a.next) ELSE a
                time_diff == Stored("sample", last.sample_token).timestamp
                               - Stored("sample", first.sample_token).timestamp
                velocity == [k \in 1..3 |->
                               Quot((last.translation[k] - first.translation[k])
                                      * MicrosPerSecond, time_diff)]
            IN
            /\ result.err = "none"
            /\ result.reads = { <<"sample_annotation", a.token>>,
                                <<"sample_annotation", first.token>>,
                                <<"sample_annotation", last.token>>,
                                <<"sample", first.sample_token>>,
                                <<"sample", last.sample_token>> }
            /\ result.val \in {velocity, <<NaN, NaN, NaN>>}
            /\ time_diff <= result.max_time_diff => result.val = velocity
            /\ ( /\ a.prev = ""
                 /\ first.translation = <<0, 0, 0>>
                 /\ last.translation = <<2, 0, 0>>
                 /\ time_diff = MicrosPerSecond )
               => result.val = <<Num(2), Num(0), Num(0)>>

\* box_velocity returned (2, 0, 0) for an annotation at (0, 0, 0) whose only
\* link is next, to an annotation at (2, 0, 0) one second later.
C20_Witness ==
    /\ VelocityCalled
    /\ LET a == Stored("sample_annotation", result.token) IN
       /\ a.prev = ""
       /\ a.next # ""
       /\ a.translation = <<0, 0, 0>>
       /\ Stored("sample_annotation", a.next).translation = <<2, 0, 0>>
       /\ Stored("sample", Stored("sample_annotation", a.next).sample_token).timestamp
            - Stored("sample", a.sample_token).timestamp = MicrosPerSecond
    /\ result.val = <<Num(2), Num(0), Num(0)>>

\* The annotation first of a call of box_velocity for a, and last.
FirstOf(a) == IF a.prev # "" THEN Stored("sample_annotation", a.prev) ELSE a

LastOf(a) == IF a.next # "" THEN Stored("sample_annotation", a.next) ELSE a

\* The time from the sample of first to the sample of last, in microseconds.
TimeDiff(a) ==
    Stored("sample", LastOf(a).sample_token).timestamp
      - Stored("sample", FirstOf(a).sample_token).timestamp

\* The translation of last minus that of first over the time between them,
\* in metres per second.
QuotientOf(a) ==
    [k \in 1..3 |->
       Quot((LastOf(a).translation[k] - FirstOf(a).translation[k]) * MicrosPerSecond,
            TimeDiff(a))]

\* C21: box_velocity(a, max_time_diff) of an annotation with a link allows a
\* gap of max_time_diff when a has one of prev and next and of twice
\* max_time_diff when it has both; it returns NaN when the time from first
\* to last is strictly greater than the allowed gap, and otherwise, also
\* when it equals the gap, the position delta over the time delta of the
\* whole span from first to last.
C21_AllowedGap ==
    VelocityCalled =>
        LET a == Stored("sample_annotation", result.token)
            allowed == IF a.prev # "" /\ a.next # ""
                       THEN 2 * result.max_time_diff ELSE result.max_time_diff
        IN
        (a.prev # "" \/ a.next # "") =>
            /\ result.err = "none"
            /\ TimeDiff(a) > allowed => result.val = <<NaN, NaN, NaN>>
            /\ TimeDiff(a) <= allowed => result.val = QuotientOf(a)

\* box_velocity returned a velocity for an annotation with both links whose
\* first and last are exactly twice max_time_diff apart, more than
\* max_time_diff.
C21_Witness ==
    /\ VelocityCalled
    /\ LET a == Stored("sample_annotation", result.token) IN
       /\ a.prev # ""
       /\ a.next # ""
       /\ TimeDiff(a) = 2 * result.max_time_diff
       /\ result.val = QuotientOf(a)
       /\ result.val # <<NaN, NaN, NaN>>

\* The positions of the records of a table whose field has the value.
Matching(table, field, value) ==
    { i \in 1..Len(table) : table[i][field] = value }

\* C22: field2token(T, field, value) on a table whose records have the
\* field returns the tokens of the records whose field equals value, one
\* entry per such record and in table order (the k-th entry is the token of
\* the k-th matching record), the empty list when there is none, and it
\* looks nothing up through the token index.
C22_Field2Token ==
    (pc = "ready" /\ result.op = "field2token"
       /\ result.table_name \in DOMAIN tables
       /\ \A i \in 1..Len(tables[result.table_name]) :
             result.field \in DOMAIN tables[result.table_name][i]) =>
        LET table == tables[result.table_name]
            M == Matching(table, result.field, result.query) IN
        /\ result.err = "none"
        /\ result.reads = {}
        /\ Len(result.val) = Cardinality(M)
        /\ \A i \in M :
              result.val[Cardinality({ j \in M : j <= i })] = table[i].token

\* field2token returned the tokens of two records of a table that has a
\* record that does not match between them.
C22_Witness ==
    /\ Returned("field2token")
    /\ Len(result.val) = 2
    /\ LET table == tables[result.table_name]
           M == Matching(table, result.field, result.query) IN
       \E i, j \in M : \E k \in 1..Len(table) : i < k /\ k < j /\ k \notin M

\* A translate step by -x and a rotate step by the inverse of the rotation
\* of yaw and tilt degrees, as a box records them.
TranslateBack(x) ==
    [op |-> "translate", x |-> <<0 - x[1], 0 - x[2], 0 - x[3]>>,
     q |-> [yaw |-> <<0, 1>>, tilt |-> <<0, 1>>]]

RotateBack(yaw, tilt) ==
    [op |-> "rotate", x |-> <<0, 0, 0>>,
     q |-> [yaw |-> <<0 - yaw, 1>>, tilt |-> <<0 - tilt, 1>>]]

\* The pose steps get_sample_data is to apply to a box of the capture sd.
PoseSteps(sd, flat_vehicle_coordinates) ==
    LET ego == Stored("ego_pose", sd.ego_pose_token)
        cs == Stored("calibrated_sensor", sd.calibrated_sensor_token) IN
    IF flat_vehicle_coordinates
    THEN << TranslateBack(ego.translation), RotateBack(ego.rotation.yaw, 0) >>
    ELSE << TranslateBack(ego.translation),
            RotateBack(ego.rotation.yaw, ego.rotation.tilt),
            TranslateBack(cs.translation),
            RotateBack(cs.rotation.yaw, cs.rotation.tilt) >>

\* C24: every box get_sample_data returns has had exactly these pose steps,
\* in this order: in sensor mode translate by -ego.translation, rotate by
\* the inverse of ego.rotation, translate by -cs.translation, rotate by the
\* inverse of cs.rotation; in flattened mode translate by -ego.translation
\* and rotate by the inverse of the yaw-only rotation of the vehicle, the
\* calibrated sensor never applied.  The visibility check of a camera is
\* made on the box that has all its pose steps: the boxes returned are the
\* produced boxes, moved, that pass it.
C24_PoseStepOrder ==
    Returned("get_sample_data") =>
        LET sd == Stored("sample_data", result.token)
            steps == PoseSteps(sd, result.flat_vehicle_coordinates)
            moved == [i \in 1..Len(Produced) |-> [Produced[i] EXCEPT !.moves = steps]]
        IN /\ \A i \in 1..Len(Produced) : Produced[i].moves = <<>>
           /\ \A i \in 1..Len(result.val.box_list) :
                 result.val.box_list[i].moves = steps
           /\ Modality(result.token) = "camera" =>
                 result.val.box_list =
                    SelectSeq(moved, LAMBDA b : box_in_image(b, result.in_image))

\* get_sample_data returned a box of a camera with the four steps of sensor
\* mode, the steps of the vehicle differing from those of the sensor.
C24_Witness ==
    /\ Returned("get_sample_data")
    /\ Modality(result.token) = "camera"
    /\ ~result.flat_vehicle_coordinates
    /\ Len(result.val.box_list) > 0
    /\ Len(result.val.box_list) < Len(Produced)
    /\ Len(result.val.box_list[1].moves) = 4
    /\ result.val.box_list[1].moves[1] # result.val.box_list[1].moves[3]
    /\ result.val.box_list[1].moves[2] # result.val.box_list[1].moves[4]

\* The positions of the key-frame captures of sample s whose sensor has the
\* channel of the capture at position j.
SameSlot(s, j) ==
    { k \in KeyFramesOf(s) :
        tables.sample_data[k].channel = tables.sample_data[j].channel }

\* Two key-frame captures are of the same sample and channel.
TwoKeyFramesOneSlot ==
    \E i \in 1..Len(tables.sample) : \E j \in KeyFramesOf(tables.sample[i].token) :
        Cardinality(SameSlot(tables.sample[i].token, j)) >= 2

\* Once the key frames are indexed, data[channel] of a sample is the token
\* of the last, in table order, of the key frames of the sample and channel,
\* and no data holds the token of an earlier one.
LastKeyFrameStored ==
    pc \in {"anns", "log_to_map", "explorer", "ready"} =>
        \A i \in 1..Len(tables.sample) :
            LET s == tables.sample[i] IN
            \A j \in KeyFramesOf(s.token) :
                LET slot == SameSlot(s.token, j)
                    last == CHOOSE k \in slot : \A m \in slot : m <= k IN
                /\ tables.sample_data[j].channel \in DOMAIN s.data
                /\ s.data[tables.sample_data[j].channel] = tables.sample_data[last].token
                /\ j # last =>
                      \A n \in 1..Len(tables.sample) :
                          tables.sample_data[j].token \notin Values(tables.sample[n].data)

\* The step that indexes the key frames does not fail when two of them are
\* of the same sample and channel.
DuplicatesAccepted ==
    (pc = "key_frame" /\ TwoKeyFramesOneSlot) => pc' = "anns"

\* C25: when two or more key-frame captures have the same sample_token and
\* channel, construction does not fail on them and the sample's
\* data[channel] is the token of the last of them in table order; the
\* earlier ones are the value of no sample's data.
C25_LastKeyFrameWins ==
    /\ []LastKeyFrameStored
    /\ [][DuplicatesAccepted]_vars

\* The object was constructed from files with two key frames of one sample
\* and channel.
C25_Witness ==
    /\ pc = "ready"
    /\ TwoKeyFramesOneSlot

\* No token is twice in the list anns.
NoDuplicate(anns) ==
    \A i, j \in 1..Len(anns) : anns[i] = anns[j] => i = j

\* A step that runs __make_reverse_index__ again ends without exception
\* and leaves the token index and every record, with its derived fields, as
\* they were; no sample's anns lists a token twice.
SecondRunChangesNothing ==
    (pc = "ready" /\ result.op = "none" /\ result'.op = "__make_reverse_index__") =>
        /\ result'.err = "none"
        /\ token2ind' = token2ind
        /\ tables' = tables
        /\ \A i \in 1..Len(tables'.sample) : NoDuplicate(tables'.sample[i].anns)

\* C26: running __make_reverse_index__ a second time on a constructed
\* object leaves the token index and every derived field (category_name,
\* sensor_modality, channel, data, anns, map_token) equal to what the first
\* run gave; no annotation token comes to be twice in a sample's anns.
C26_SecondRunIdempotent == [][SecondRunChangesNothing]_vars

\* __make_reverse_index__ has run again on an object with a sample that
\* has annotations and a key frame.
C26_Witness ==
    /\ pc = "ready"
    /\ result.op = "__make_reverse_index__"
    /\ \E i \in 1..Len(tables.sample) :
          /\ Len(tables.sample[i].anns) >= 2
          /\ DOMAIN tables.sample[i].data # {}
    /\ \E i \in 1..Len(tables.log) : "map_token" \in DOMAIN tables.log[i]

\* The list boxes has one box per annotation of the sample S, in the order
\* of S.anns, each with the token, the size and the category name of its
\* annotation.
OneBoxPerAnnotation(boxes, S) ==
    /\ Len(boxes) = Len(S.anns)
    /\ \A i \in 1..Len(S.anns) :
          LET a == Stored("sample_annotation", S.anns[i]) IN
          /\ boxes[i].token = a.token
          /\ boxes[i].size = a.size
          /\ boxes[i].name = a.category_name

\* C27: for every capture D of a sample S, get_boxes(D) returns exactly
\* len(S.anns) boxes, the i-th with the token, size and category name of the
\* i-th annotation of S: interpolation changes the centre and the rotation
\* only, and an annotation of the previous sample whose instance is not
\* annotated in S gives no box.
C27_OneBoxPerAnnotation ==
    (pc = "ready" /\ result.op = "get_boxes" /\ KnownCapture(result.token)) =>
        LET S == Stored("sample", Stored("sample_data", result.token).sample_token) IN
        /\ result.err = "none"
        /\ OneBoxPerAnnotation(result.val, S)
        /\ S.prev # "" =>
              \A j \in 1..Len(Stored("sample", S.prev).anns) :
                  LET p == Stored("sample_annotation", Stored("sample", S.prev).anns[j]) IN
                  p.instance_token \notin InstancesOf(S.token) =>
                      \A i \in 1..Len(result.val) : result.val[i].token # p.token

\* C28: whenever box_velocity returns a velocity that is not three NaN, the
\* time from the sample of first to the sample of last, by which it
\* divided, is strictly positive and at most the allowed gap: it divides by
\* no zero and no negative time, also when the samples have equal or
\* out-of-order timestamps.
C28_PositiveTimeDelta ==
    (VelocityCalled /\ result.err = "none" /\ result.val # <<NaN, NaN, NaN>>) =>
        LET a == Stored("sample_annotation", result.token) IN
        /\ TimeDiff(a) > 0
        /\ TimeDiff(a) <= (IF a.prev # "" /\ a.next # ""
                           THEN 2 * result.max_time_diff ELSE result.max_time_diff)

\* The number of annotations of the samples from the one with the given
\* token along next, the last one included.
RECURSIVE AnnsFrom(_)
AnnsFrom(token) ==
    IF token = "" THEN 0
    ELSE Len(Stored("sample", token).anns) + AnnsFrom(Stored("sample", token).next)

\* C29: the annotation count list_scenes reports for a scene is the sum of
\* len(anns) over the samples of the scene, from first_sample_token along
\* next up to and including the sample whose next is empty.
C29_CountsEverySample ==
    (pc = "ready" /\ result.op = "list_scenes") =>
        /\ result.err = "none"
        /\ \A i \in 1..Len(tables.scene) :
              result.val[i] = AnnsFrom(tables.scene[i].first_sample_token)

\* ------------------------------------------------ chains of captures

\* The camera frames of a scene, in next order, and the sweeps of the two
\* lidars, in prev order from the last to the first.
FrameToken == <<"f1", "f2", "f3">>
TopToken == <<"p1", "p2", "p3">>
LeftToken == <<"q1", "q2">>

\* Capture j of the n captures names: linked to the one before and the one
\* after, j * step after start; the captures of keys are key frames, the
\* captures from second on are of sample s2, those before of s1.
Link(names, n, j, second, cs, keys, start, step) ==
    [ Capture(names[j], IF j >= second THEN "s2" ELSE "s1", cs, j \in keys,
              start + j * step)
      EXCEPT !.prev = IF j = 1 THEN "" ELSE names[j - 1],
             !.next = IF j = n THEN "" ELSE names[j + 1] ]

\* A scene with L camera frames (f1 is the key frame of s1), M sweeps of
\* LIDAR_TOP and Q sweeps of LIDAR_FRONT_LEFT, the last sweep of each being
\* the key frame of s2.
ChainScene(L, M, Q) ==
    LET base == Scene(4 * HalfSecond, 6 * HalfSecond, {1, 2}, {2}) IN
    [ base EXCEPT
      !.sensor = @ \o << [token |-> "se4", channel |-> "LIDAR_FRONT_LEFT",
                          modality |-> "lidar"] >>,
      !.calibrated_sensor = @ \o << [token |-> "cs4", sensor_token |-> "se4",
                                     translation |-> <<2, 1, 1>>,
                                     rotation |-> Rotation(45, 0)] >>,
      !.sample_data =
          [j \in 1..L |-> Link(FrameToken, L, j, 3, "cs1", {1, 3},
                               HalfSecond, HalfSecond)]
          \o [j \in 1..M |-> Link(TopToken, M, j, 1, "cs2", {M},
                                  HalfSecond, HalfSecond)]
          \o [j \in 1..Q |-> Link(LeftToken, Q, j, 1, "cs4", {Q},
                                  5 * HalfSecond, HalfSecond \div 2)] ]

ChainScenes ==
    { ChainScene(L, M, Q) :
        L \in DOMAIN FrameToken, M \in DOMAIN TopToken, Q \in DOMAIN LeftToken }

\* The object is constructed from the files of a scene with chains.
InitChains ==
    /\ files \in { OnDisk(f) : f \in ChainScenes }
    /\ missing_tables_ok = FALSE
    /\ tables = EmptyDict
    /\ token2ind = EmptyDict
    /\ explorer = FALSE
    /\ pc = "load"
    /\ error = "none"
    /\ result = [op |-> "none"]

\* ------------------------------------------------ multi-sweep aggregation

\* The sweep counts a caller asks for.
MaxSweeps == 3

\* A call that is over, with the exception it raised.
Over(call, e) == [call EXCEPT !.at = "done", !.err = e]

\* After taken captures, an aggregation of more than num_sweeps captures
\* goes on to the capture before.
MoreSweepsThanAsked(taken, num_sweeps) == taken <= num_sweeps

\* After taken captures, an aggregation of num_sweeps captures goes on to
\* the capture before while it has fewer than num_sweeps.
MoreSweeps(taken, num_sweeps) == taken < num_sweeps

\* from_file_multisweep(lyftd, sample_rec, chan, ref_chan, num_sweeps), up
\* to its loop: the reference time is the time of the sample's capture of
\* ref_chan, the first capture is the sample's capture of chan.
from_file_multisweep(call, sample_rec, chan, ref_chan) ==
    IF ref_chan \notin DOMAIN sample_rec.data \/ chan \notin DOMAIN sample_rec.data
    THEN Over(call, "KeyError")
    ELSE LET ref_sd_rec == get(tables, "sample_data", sample_rec.data[ref_chan])
             current_sd_rec == get(tables, "sample_data", sample_rec.data[chan]) IN
         IF ref_sd_rec.err # "none" THEN Over(call, ref_sd_rec.err)
         ELSE IF current_sd_rec.err # "none" THEN Over(call, current_sd_rec.err)
         ELSE [call EXCEPT !.at = "sweeps",
                           !.first = current_sd_rec.val.token,
                           !.current = current_sd_rec.val.token,
                           !.ref_time = ref_sd_rec.val.timestamp]

\* render_sample_data(sample_data_token, num_sweeps=num_sweeps) of a lidar
\* capture, up to the loop of the aggregation.
RenderSampleData ==
    /\ pc = "ready"
    /\ result.op = "none"
    /\ \E sample_data_token \in
            { d.token : d \in { r \in Range(tables.sample_data) :
                                  r.sensor_modality = "lidar" } } \cup {"zz"} :
       \E num_sweeps \in 1..MaxSweeps :
         LET call == [op |-> "render_sample_data", token |-> sample_data_token,
                      num_sweeps |-> num_sweeps, at |-> "call", err |-> "none",
                      first |-> "", current |-> "", ref_time |-> 0,
                      used |-> <<>>, times |-> <<>>]
             sd_record == get(tables, "sample_data", sample_data_token) IN
         result' =
           IF sd_record.err # "none" THEN Over(call, sd_record.err)
           ELSE LET boxes == get_sample_data(tables, sample_data_token, {}, None, TRUE)
                    sample_rec == get(tables, "sample", sd_record.val.sample_token) IN
                IF boxes.err # "none" THEN Over(call, boxes.err)
                ELSE IF sample_rec.err # "none" THEN Over(call, sample_rec.err)
                ELSE from_file_multisweep(call, sample_rec.val,
                                          sd_record.val.channel, "LIDAR_TOP")
    /\ UNCHANGED <<files, missing_tables_ok, tables, token2ind, explorer, pc, error>>

\* One turn of the loop of the aggregation: the current capture is loaded and
\* tagged with its time offset, in seconds, from the reference time; the
\* loop ends at a capture that has no prev and after num_sweeps captures.
SweepStep ==
    /\ pc = "ready"
    /\ result.op = "render_sample_data"
    /\ result.at = "sweeps"
    /\ LET current_sd_rec == get(tables, "sample_data", result.current).val
           loaded == [result EXCEPT
                        !.used = Append(@, current_sd_rec.token),
                        !.times = Append(@, Quot(result.ref_time - current_sd_rec.timestamp,
                                                 MicrosPerSecond))] IN
       result' =
         IF current_sd_rec.prev = "" \/ ~MoreSweeps(Len(loaded.used), result.num_sweeps)
         THEN [loaded EXCEPT !.at = "done"]
         ELSE LET before == get(tables, "sample_data", current_sd_rec.prev) IN
              IF before.err # "none" THEN Over(loaded, before.err)
              ELSE [loaded EXCEPT !.current = before.val.token]
    /\ UNCHANGED <<files, missing_tables_ok, tables, token2ind, explorer, pc, error>>

\* ------------------------------------------------ rendering a scene

\* What cv2.waitKey returns: no key within the delay, ESC, space, another key.
NoKey == -1
Esc == 27
Space == 32
OtherKey == 65

\* The channels render_scene_channel accepts.
valid_channels ==
    <<"CAM_FRONT_LEFT", "CAM_FRONT", "CAM_FRONT_RIGHT",
      "CAM_BACK_LEFT", "CAM_BACK", "CAM_BACK_RIGHT">>

\* The loop left at the space key.
ExitAtSpace(key) == key = Space

\* Line 1339: the loop is left when the key is ESC.
ExitKey(key) == key = Esc

\* render_scene_channel(scene_token, channel) up to its loop (lines
\* 1289-1299): the first frame is the key frame of the channel in the first
\* sample of the scene.
RenderSceneChannel ==
    /\ pc = "ready"
    /\ result.op = "none"
    /\ \E scene_token \in {"sc1", "zz"} :
       \E channel \in {"CAM_FRONT", "CAM_BACK", "LIDAR_TOP"} :
         LET call == [op |-> "render_scene_channel", scene_token |-> scene_token,
                      channel |-> channel, at |-> "call", err |-> "none",
                      first |-> "", current |-> "", frames |-> <<>>, keys |-> <<>>]
             scene_rec == get(tables, "scene", scene_token) IN
         result' =
           IF channel \notin Range(valid_channels) THEN Over(call, "AssertionError")
           ELSE IF scene_rec.err # "none" THEN Over(call, scene_rec.err)
           ELSE LET sample_rec == get(tables, "sample", scene_rec.val.first_sample_token) IN
                IF sample_rec.err # "none" THEN Over(call, sample_rec.err)
                ELSE IF channel \notin DOMAIN sample_rec.val.data
                THEN Over(call, "KeyError")
                ELSE LET sd_rec == get(tables, "sample_data", sample_rec.val.data[channel]) IN
                     IF sd_rec.err # "none" THEN Over(call, sd_rec.err)
                     ELSE [call EXCEPT !.at = "frames",
                                       !.first = sd_rec.val.token,
                                       !.current = sd_rec.val.token]
    /\ UNCHANGED <<files, missing_tables_ok, tables, token2ind, explorer, pc, error>>

\* The first part of a turn of the loop (lines 1312-1320): the path and the
\* boxes of the frame are fetched and the image file is looked for.
FetchFrame ==
    /\ pc = "ready"
    /\ result.op = "render_scene_channel"
    /\ result.at = "frames"
    /\ \E exists \in BOOLEAN :
         LET fetched == get_sample_data(tables, result.current, {}, None, FALSE) IN
         result' =
           IF fetched.err # "none" THEN Over(result, fetched.err)
           ELSE IF ~exists THEN Over(result, "Exception")
           ELSE [result EXCEPT !.at = "show"]
    /\ UNCHANGED <<files, missing_tables_ok, tables, token2ind, explorer, pc, error>>

\* The rest of the turn (lines 1321-1346): the image is shown and a key is
\* read; at space the loop waits for the next key.  The loop ends at ESC
\* and after the frame that has no next.
ShowFrame ==
    /\ pc = "ready"
    /\ result.op = "render_scene_channel"
    /\ result.at = "show"
    /\ \E pressed \in {<<NoKey>>, <<Esc>>, <<OtherKey>>,
                       <<Space, Esc>>, <<Space, Space>>, <<Space, OtherKey>>} :
         LET sd_rec == get(tables, "sample_data", result.current).val
             key == IF pressed[1] = Space THEN pressed[2] ELSE pressed[1]
             shown == [result EXCEPT !.frames = Append(@, sd_rec.token),
                                     !.keys = Append(@, key)] IN
         result' =
           IF ExitKey(key) THEN [shown EXCEPT !.at = "done"]
           ELSE IF sd_rec.next = "" THEN [shown EXCEPT !.at = "done"]
           ELSE LET after == get(tables, "sample_data", sd_rec.next) IN
                IF after.err # "none" THEN Over(shown, after.err)
                ELSE [shown EXCEPT !.at = "frames", !.current = after.val.token]
    /\ UNCHANGED <<files, missing_tables_ok, tables, token2ind, explorer, pc, error>>

\* A call that is over returns to its caller.
CallReturn ==
    /\ pc = "ready"
    /\ result.op \in {"render_sample_data", "render_scene_channel"}
    /\ result.at = "done"
    /\ result' = [op |-> "none"]
    /\ UNCHANGED <<files, missing_tables_ok, tables, token2ind, explorer, pc, error>>

NextChains ==
    \/ LoadTable
    \/ MapMask
    \/ BuildToken2Ind
    \/ CategoryName
    \/ SensorInfo
    \/ InitSample
    \/ KeyFrameData
    \/ Anns
    \/ LogToMap
    \/ CreateExplorer
    \/ RenderSampleData
    \/ SweepStep
    \/ RenderSceneChannel
    \/ FetchFrame
    \/ ShowFrame
    \/ CallReturn

\* A loop that can take a turn takes it: the interpreter runs the call to
\* its end.
SpecChains ==
    InitChains /\ [][NextChains]_vars /\ WF_vars(SweepStep)
    /\ WF_vars(FetchFrame) /\ WF_vars(ShowFrame)

\* ------------------------------------------------ claims on the chains

\* The tokens of the captures from token back along prev.
RECURSIVE PrevChain(_)
PrevChain(token) ==
    IF token = "" THEN <<>>
    ELSE <<token>> \o PrevChain(Stored("sample_data", token).prev)

\* The offset, in seconds, of a capture from the reference time of a call.
OffsetOf(call, token) ==
    Quot(call.ref_time - Stored("sample_data", token).timestamp, MicrosPerSecond)

\* The aggregation of a call of render_sample_data on a lidar capture.
Aggregating ==
    /\ pc = "ready"
    /\ result.op = "render_sample_data"
    /\ result.token # "zz"

\* What holds of an aggregation at every moment.
SweepsBounded ==
    Aggregating =>
        /\ result.err = "none"
        /\ result.at \in {"sweeps", "done"}
        /\ result.first = Stored("sample", Stored("sample_data", result.token).sample_token)
                             .data[Stored("sample_data", result.token).channel]
        /\ result.ref_time = Stored("sample_data",
               Stored("sample", Stored("sample_data", result.token).sample_token)
                  .data["LIDAR_TOP"]).timestamp
        /\ Len(result.used) <= result.num_sweeps
        /\ Len(result.used) <= Len(PrevChain(result.first))
        /\ result.used = SubSeq(PrevChain(result.first), 1, Len(result.used))
        /\ result.times = [k \in 1..Len(result.used) |-> OffsetOf(result, result.used[k])]
        /\ result.at = "done" =>
              /\ Len(result.used) = MinOf(result.num_sweeps, Len(PrevChain(result.first)))
              /\ result.num_sweeps = 1 => result.used = <<result.first>>
              /\ (result.num_sweeps = 1
                    /\ Stored("sample_data", result.first).channel = "LIDAR_TOP")
                 => result.times = <<Num(0)>>

\* C23: the aggregation of num_sweeps sweeps that render_sample_data asks
\* for starts at the sample's capture of the channel and follows prev; it
\* always comes to an end, without an exception, having used the first
\* min(num_sweeps, length of the chain) captures of the chain and no other,
\* each tagged with its offset from the reference time: with num_sweeps = 1
\* only the first capture, at offset 0 when it is the reference capture, and
\* the whole chain when it is shorter than num_sweeps.
C23_SweepsTerminate ==
    /\ []SweepsBounded
    /\ (Aggregating /\ result.at = "sweeps") ~> (Aggregating /\ result.at = "done")

\* An aggregation of three sweeps ended at the end of a chain of two, and
\* one of a single sweep returned the reference capture at offset 0.
C23_Witness ==
    /\ Aggregating
    /\ result.at = "done"
    /\ result.num_sweeps = 3
    /\ result.used = <<"p2", "p1">>
    /\ result.times = <<Num(0), Quot(1, 2)>>

\* The tokens of the captures from token on along next.
RECURSIVE NextChain(_)
NextChain(token) ==
    IF token = "" THEN <<>>
    ELSE <<token>> \o NextChain(Stored("sample_data", token).next)

\* The loop of a call of render_scene_channel on a scene with a key frame
\* of the channel.
Rendering ==
    /\ pc = "ready"
    /\ result.op = "render_scene_channel"
    /\ result.at \in {"frames", "show", "done"}
    /\ result.first # ""

\* What holds of the loop at every moment: the frames shown are the first
\* captures of the chain from the key frame of the channel in the first
\* sample, each once and in next order; no frame is shown after ESC; a
\* loop that has ended without exception ended at ESC or with the whole
\* chain shown.
FramesInOrder ==
    Rendering =>
        LET chain == NextChain(result.first)
            n == Len(result.frames) IN
        /\ result.first = Stored("sample", Stored("scene", result.scene_token)
                                             .first_sample_token).data[result.channel]
        /\ n <= Len(chain)
        /\ result.frames = SubSeq(chain, 1, n)
        /\ \A i, j \in 1..n : result.frames[i] = result.frames[j] => i = j
        /\ \A i \in 1..(n - 1) : result.keys[i] # Esc
        /\ result.at \in {"frames", "show"} =>
              (n < Len(chain) /\ result.current = chain[n + 1])
        /\ (result.at = "done" /\ result.err = "none") =>
              /\ n >= 1
              /\ result.keys[n] = Esc \/ n = Len(chain)

====
